---- MODULE Spec2Model ----
(***************************************************************************)
(* Fetch orchestrator of the sensor explorer (ExplorerClient.tsx) with the *)
(* geo-bounds utilities (map-utils.ts) and the registry client helpers it  *)
(* uses (sensors-api.ts, data-filters.ts).                                 *)
(*                                                                         *)
(* Coordinates are integers in units of 1/40 degree, so that the 15%       *)
(* viewport cushion of whole-degree boxes and the 0.5 degree pad are exact.*)
(* A nullable value is a sequence: <<>> is null, <<x>> is the value x.     *)
(* One action is one run of the event loop: the synchronous part of an     *)
(* effect, or the continuation of a fetch from the resolution (or failure) *)
(* of its pending registry call up to its next await.                      *)
(***************************************************************************)
EXTENDS Integers, Sequences, FiniteSets, TLC

\* ---------------------------------------------------------------- bounds
\* Number of network fetches started (the value the fetch epoch reaches).
MaxFetches == 2
\* The registry answers "more pages follow" only below this page number.
MaxRegistryPages == 2
\* Fetches run one after another to fill the result cache beyond its limit.
MaxStores == 23
\* Sensor ids the registry client is asked about.
MaxSensorIds == 502
\* Registry client calls in flight at the same time.
MaxPending == 2
\* The number of pages of a long listing of the registry.
LongRegistryPages == 11
\* Viewport events the map reports.
MaxViewportEvents == 5
\* The longest list the registry's answers add up to in the reveal.
MaxListLen == 401
\* The longest array given to sortSensorsByCenter.
MaxSortLen == 4

\* ------------------------------------------------------ program constants
MAX_NO_READING_CACHE == 500
PROGRESSIVE_CHUNK_SIZE == 200
BBOX_CACHE_MAX_ENTRIES == 20
BBOX_CONCURRENCY == 4
RADIUS_MAX_PAGES == 5
BBOX_MAX_PAGES == 10
DATELINE_OVERLAP_DEG == 15
VIEWPORT_CUSHION == <<15, 100>>

Null == <<>>
Some(x) == <<x>>
D(deg) == deg * 40

INITIAL_BOUNDS == [west |-> D(-126), south |-> D(35), east |-> D(-118), north |-> D(41)]

\* ------------------------------------------------------------- map-utils
\* One turn added or taken off, without repeating.
WrapOnce(lon) ==
  IF lon < D(-180) THEN lon + D(360) ELSE IF lon > D(180) THEN lon - D(360) ELSE lon

RECURSIVE normalizeLongitude(_)
normalizeLongitude(lon) ==
  IF lon < D(-180) THEN normalizeLongitude(lon + D(360))
  ELSE IF lon > D(180) THEN normalizeLongitude(lon - D(360))
  ELSE lon

normalizeBounds(bounds) ==
  [west |-> normalizeLongitude(bounds.west), east |-> normalizeLongitude(bounds.east),
   south |-> bounds.south, north |-> bounds.north]

boundsCrossDateline(bounds) ==
  IF bounds.west > bounds.east THEN TRUE ELSE bounds.east - bounds.west > D(180)

\* The 1e-6 tolerances are below the resolution of the integer grid.
isFullWorldBounds(bounds) ==
  IF ~boundsCrossDateline(bounds) THEN bounds.east - bounds.west >= D(360)
  ELSE bounds.west = D(180) /\ bounds.east = D(-180)

fullWorldSegments(bounds) ==
  << [west |-> D(-180), south |-> bounds.south, east |-> 0, north |-> bounds.north],
     [west |-> 0, south |-> bounds.south, east |-> D(180), north |-> bounds.north] >>

\* The bounds handed on unsplit.
SegmentsUnsplit(bounds) == <<bounds>>

\* The split without the strips beyond the dateline.
SegmentsWithoutStrips(bounds) ==
  IF isFullWorldBounds(bounds) THEN fullWorldSegments(bounds)
  ELSE IF boundsCrossDateline(bounds) THEN
    << [west |-> bounds.west, south |-> bounds.south, east |-> D(180), north |-> bounds.north],
       [west |-> D(-180), south |-> bounds.south, east |-> bounds.east, north |-> bounds.north] >>
  ELSE <<bounds>>

boundsToFetchSegments(bounds) ==
  IF isFullWorldBounds(bounds) THEN fullWorldSegments(bounds)
  ELSE IF boundsCrossDateline(bounds) THEN
    << [west |-> bounds.west, south |-> bounds.south, east |-> D(180), north |-> bounds.north],
       [west |-> D(-180), south |-> bounds.south, east |-> bounds.east, north |-> bounds.north] >>
  ELSE
    <<bounds>>
    \o (IF bounds.west <= D(-180 + DATELINE_OVERLAP_DEG)
        THEN << [west |-> D(180 - DATELINE_OVERLAP_DEG), south |-> bounds.south,
                 east |-> D(180), north |-> bounds.north] >>
        ELSE << >>)
    \o (IF bounds.east >= D(180 - DATELINE_OVERLAP_DEG)
        THEN << [west |-> D(-180), south |-> bounds.south,
                 east |-> D(-180 + DATELINE_OVERLAP_DEG), north |-> bounds.north] >>
        ELSE << >>)

\* The half margin with its sign turned: the box shrinks.
TimesHalfMarginInward(x, margin) == -((x * margin[1]) \div (2 * margin[2]))

\* x * (margin / 2), margin given as <<numerator, denominator>>.
TimesHalfMargin(x, margin) == (x * margin[1]) \div (2 * margin[2])

expandBounds(bounds, margin) ==
  LET h == bounds.north - bounds.south IN
  IF boundsCrossDateline(bounds) THEN
    LET w1 == D(180) - bounds.west
        w2 == bounds.east - D(-180)
    IN [west |-> bounds.west - TimesHalfMargin(w1, margin),
        east |-> bounds.east + TimesHalfMargin(w2, margin),
        south |-> bounds.south - TimesHalfMargin(h, margin),
        north |-> bounds.north + TimesHalfMargin(h, margin)]
  ELSE
    LET w == bounds.east - bounds.west
    IN [west |-> bounds.west - TimesHalfMargin(w, margin),
        east |-> bounds.east + TimesHalfMargin(w, margin),
        south |-> bounds.south - TimesHalfMargin(h, margin),
        north |-> bounds.north + TimesHalfMargin(h, margin)]

boundsContained(inner, outer) ==
  IF inner.south < outer.south \/ inner.north > outer.north THEN FALSE
  ELSE IF boundsCrossDateline(outer) /\ outer.west < outer.east THEN FALSE
  ELSE IF boundsCrossDateline(outer) THEN
    IF boundsCrossDateline(inner)
    THEN inner.west >= outer.west /\ inner.east <= outer.east
    ELSE \/ (inner.west >= outer.west /\ inner.east <= D(180))
         \/ (inner.west >= D(-180) /\ inner.east <= outer.east)
  ELSE IF boundsCrossDateline(inner)
    THEN outer.west <= inner.west /\ outer.east >= inner.east
  ELSE inner.west >= outer.west /\ inner.east <= outer.east

\* A center is kept doubled ([lat2, lon2] = 2 * (lat, lon)) so that the
\* midpoint of a box stays an integer; distances are then scaled by 4,
\* which leaves their order unchanged.
centerFromBounds(bounds) ==
  LET wrap == bounds.west + bounds.east + D(360)
      lon2 == IF boundsCrossDateline(bounds)
              THEN (IF wrap > D(360) THEN wrap - D(720) ELSE wrap)
              ELSE bounds.west + bounds.east
  IN [lat2 |-> bounds.south + bounds.north, lon2 |-> lon2]

HasCoords(s) == s.latitude # Null /\ s.longitude # Null

distSq(lat1, lon1, lat2, lon2) ==
  LET dlat == lat1 - lat2
      dlon == lon1 - lon2
  IN dlat * dlat + dlon * dlon

DistTo(s, center) ==
  distSq(2 * s.latitude[1], 2 * s.longitude[1], center.lat2, center.lon2)

\* Stable insertion of s into a list already ordered by distance.
RECURSIVE InsertByDistance(_, _, _)
InsertByDistance(sorted, s, center) ==
  IF sorted = << >> THEN <<s>>
  ELSE IF DistTo(s, center) < DistTo(Head(sorted), center)
       THEN <<s>> \o sorted
       ELSE <<Head(sorted)>> \o InsertByDistance(Tail(sorted), s, center)

RECURSIVE SortByDistance(_, _)
SortByDistance(list, center) ==
  IF list = << >> THEN << >>
  ELSE InsertByDistance(SortByDistance(SubSeq(list, 1, Len(list) - 1), center),
                        list[Len(list)], center)

sortSensorsByCenter(sensors, center) ==
  SortByDistance(SelectSeq(sensors, HasCoords), center)
  \o SelectSeq(sensors, LAMBDA s : ~HasCoords(s))

\* ----------------------------------------------------------- sensors-api
\* The filter left out: every record the registry returned is kept.
\* A JSON value of a registry record: null (or the key missing), a number
\* (in 1/40 degree), a string (a sequence of characters), a boolean, an
\* array or an object.
JsonNull == [t |-> "null", n |-> 0, s |-> << >>]
JsonNumber(n) == [t |-> "number", n |-> n, s |-> << >>]
JsonString(s) == [t |-> "string", n |-> 0, s |-> s]
JsonBool(b) == [t |-> "bool", n |-> IF b THEN 1 ELSE 0, s |-> << >>]
JsonEmptyArray == [t |-> "array", n |-> 0, s |-> << >>]
JsonObject == [t |-> "object", n |-> 0, s |-> << >>]

DigitChars == <<"0", "1", "2", "3", "4", "5", "6", "7", "8", "9">>
IsDigit(c) == \E d \in 1..10 : DigitChars[d] = c
DigitValue(c) == (CHOOSE d \in 1..10 : DigitChars[d] = c) - 1

RECURSIVE Pow10(_)
Pow10(k) == IF k = 0 THEN 1 ELSE 10 * Pow10(k - 1)

RECURSIVE SkipSpaces(_)
SkipSpaces(s) == IF s # << >> /\ Head(s) = " " THEN SkipSpaces(Tail(s)) ELSE s

\* The longest run of digits s starts with: its value, its length, the rest.
RECURSIVE ReadDigits(_, _, _)
ReadDigits(s, val, len) ==
  IF s # << >> /\ IsDigit(Head(s))
  THEN ReadDigits(Tail(s), 10 * val + DigitValue(Head(s)), len + 1)
  ELSE [val |-> val, len |-> len, rest |-> s]

\* parseFloat: leading blanks, a sign, digits, a fraction; what follows the
\* longest such prefix is ignored; NaN (null here) without a digit. The
\* strings tried have no exponent. The result is in 1/40 degree.
parseFloat(s) ==
  LET s1 == SkipSpaces(s)
      signed == s1 # << >> /\ Head(s1) \in {"-", "+"}
      sign == IF s1 # << >> /\ Head(s1) = "-" THEN -1 ELSE 1
      int == ReadDigits(IF signed THEN Tail(s1) ELSE s1, 0, 0)
      frac == IF int.rest # << >> /\ Head(int.rest) = "."
              THEN ReadDigits(Tail(int.rest), 0, 0)
              ELSE [val |-> 0, len |-> 0, rest |-> int.rest]
  IN IF int.len = 0 /\ frac.len = 0 THEN Null
     ELSE Some(sign * (((int.val * Pow10(frac.len) + frac.val) * D(1)) \div Pow10(frac.len)))

\* Number(v) of a value that is neither null, a number nor a string:
\* false and [] give 0, true gives 1, an object gives NaN.
NumberOf(v) ==
  CASE v.t = "bool" -> Some(D(v.n))
    [] v.t = "array" -> Some(0)
    [] OTHER -> Null

toNum(v) ==
  IF v.t = "null" THEN Null
  ELSE IF v.t = "number" THEN Some(v.n)
  ELSE IF v.t = "string" THEN parseFloat(v.s)
  ELSE NumberOf(v)

\* a ?? b
Coalesce(a, b) == IF a # Null THEN a ELSE b

\* geometry?.coordinates?.[i] (0: longitude, 1: latitude)
Coordinate(s, i) == IF s.geometry = Null THEN JsonNull ELSE s.geometry[1][i + 1]

normalizeSensor(s) ==
  LET lat == Coalesce(toNum(s.latitude), Coalesce(toNum(s.lat), toNum(Coordinate(s, 1))))
      lon == Coalesce(toNum(s.longitude),
               Coalesce(toNum(s.lon), Coalesce(toNum(s.lng), toNum(Coordinate(s, 0)))))
  IN [id |-> s.id, sensor_type |-> s.sensor_type, latitude |-> lat, longitude |-> lon]

KeepAllSensors(sensors, bounds) == sensors

filterSensorsByBounds(sensors, bounds) ==
  LET crossesDateline == bounds.west > bounds.east \/ bounds.east - bounds.west > D(180)
      keep(s) ==
        IF s.latitude = Null \/ s.longitude = Null THEN FALSE
        ELSE IF s.latitude[1] < bounds.south \/ s.latitude[1] > bounds.north THEN FALSE
        ELSE IF crossesDateline
          THEN \/ (s.longitude[1] >= bounds.west /\ s.longitude[1] <= D(180))
               \/ (s.longitude[1] >= D(-180) /\ s.longitude[1] <= bounds.east)
        ELSE s.longitude[1] >= bounds.west /\ s.longitude[1] <= bounds.east
  IN SelectSeq(sensors, keep)

\* ---------------------------------------------------------- data-filters
\* Strings have no order in TLA+: the two lists give the order that
\* Array.prototype.sort() gives these identifiers.
DataTypeOrder == <<"aqi", "humidity", "temperature", "water_quality", "wave_height", "wind">>
SensorTypeOrder == <<"air_quality_monitor", "buoy", "river_sensor", "weather_station">>

DATA_TYPE_FILTERS ==
  [aqi |-> {"air_quality_monitor"},
   temperature |-> {"weather_station", "buoy", "river_sensor", "air_quality_monitor"},
   humidity |-> {"weather_station", "air_quality_monitor"},
   wave_height |-> {"buoy"},
   wind |-> {"buoy", "weather_station"},
   water_quality |-> {"river_sensor"}]

dataTypesToSensorTypes(selectedDataTypes) ==
  LET sensorTypes == UNION {DATA_TYPE_FILTERS[id] : id \in selectedDataTypes}
  IN SelectSeq(SensorTypeOrder, LAMBDA st : st \in sensorTypes)

\* [...selectedDataTypes].sort().join(",")
SelectedTypesKey(selectedDataTypes) ==
  SelectSeq(DataTypeOrder, LAMBDA id : id \in selectedDataTypes)

\* sensorTypesToFetch.length === 0 ? [null] : sensorTypesToFetch
TypesToFetch(selectedDataTypes) ==
  LET sensorTypesToFetch == dataTypesToSensorTypes(selectedDataTypes)
  IN IF Len(sensorTypesToFetch) = 0 THEN <<Null>>
     ELSE [i \in 1..Len(sensorTypesToFetch) |-> Some(sensorTypesToFetch[i])]

\* ------------------------------------------------- registry and requests
SensorA == [id |-> "a", sensor_type |-> "air_quality_monitor",
            latitude |-> Some(D(37)), longitude |-> Some(D(-122))]
SensorB == [id |-> "b", sensor_type |-> "buoy",
            latitude |-> Some(D(48)), longitude |-> Some(D(2))]
SensorC == [id |-> "c", sensor_type |-> "weather_station",
            latitude |-> Some(D(37)), longitude |-> Null]

\* What one registry call may answer: nothing, one record, or the whole
\* catalog whatever was asked; more stands for
\* res.sensors.length === limit && page < res.pagination.total_pages.
Responses ==
  {[sensors |-> list, more |-> FALSE] :
     list \in {<< >>, <<SensorA>>, <<SensorB, SensorA, SensorC>>}}
  \cup {[sensors |-> <<SensorA>>, more |-> TRUE]}

Place1 == [lat |-> D(37), lon |-> D(-122)]
Place2 == [lat |-> D(48), lon |-> D(2)]
Place1Bbox == [min_lat |-> D(37) - 10, max_lat |-> D(37) + 10,
               min_lon |-> D(-122) - 10, max_lon |-> D(-122) + 10]

View1 == [west |-> D(-123), south |-> D(37), east |-> D(-122), north |-> D(38)]
\* View1 panned by 0.05 degree: inside View1 expanded by the cushion.
View2 == [west |-> D(-123) + 2, south |-> D(37), east |-> D(-122) + 2, north |-> D(38)]
\* Zoomed out, wider than 180 degrees: boundsCrossDateline holds of it, so it
\* is fetched as two segments and boundsContained never finds it (or its
\* expansion) to contain it.
View3 == [west |-> D(-100), south |-> D(-10), east |-> D(100), north |-> D(10)]

\* The values the fetch effect depends on (it also re-runs when initialSearch
\* changes, which no branch reads, so a run may repeat the previous values): the resolved location (with the
\* geocoder's bounding box), the selected data types, the provider filter
\* and the debounced viewport (null before the map has reported one).
Req(loc, locBbox, types, vp) ==
  [loc |-> loc, locBbox |-> locBbox, types |-> types, provider |-> "", vp |-> vp]

\* The mount before the map has reported (viewport INITIAL_BOUNDS), three
\* viewports, and two place searches: one with the geocoder's box and no
\* category filter, one without a box and with a filter of two categories.
Requests ==
  { Req(Null, Null, {}, Null),
    Req(Null, Null, {}, Some(View1)),
    Req(Null, Null, {}, Some(View2)),
    Req(Null, Null, {}, Some(View3)),
    Req(Some(Place1), Some(Place1Bbox), {}, Null),
    Req(Some(Place2), Null, {"wind"}, Null) }

\* ------------------------------------------------------------- Map (LRU)
\* A JavaScript Map as the sequence of its entries in insertion order.
MapHas(map, key) == \E i \in 1..Len(map) : map[i].key = key

\* A lookup that never finds the key.
MapGetMiss(map, key) == Null

MapGet(map, key) ==
  IF MapHas(map, key)
  THEN Some((CHOOSE e \in {map[i] : i \in 1..Len(map)} : e.key = key).val)
  ELSE Null

\* set() of a key already present keeps the entry's position.
MapSet(map, key, val) ==
  IF MapHas(map, key)
  THEN [i \in 1..Len(map) |-> IF map[i].key = key THEN [key |-> key, val |-> val] ELSE map[i]]
  ELSE Append(map, [key |-> key, val |-> val])

\* The last key deleted instead of the first.
EvictNewest(map) ==
  IF Len(map) > BBOX_CACHE_MAX_ENTRIES THEN SubSeq(map, 1, Len(map) - 1) ELSE map

\* if (size > BBOX_CACHE_MAX_ENTRIES) delete(keys().next().value)
EvictOldest(map) ==
  IF Len(map) > BBOX_CACHE_MAX_ENTRIES THEN Tail(map) ELSE map

\* ----------------------------------------------------------------- merge
Ids(list) == {list[i].id : i \in 1..Len(list)}

\* The merge without its seen-set: every record is pushed.
MergeAll(acc, sensors) == acc \o sensors

\* for (const s of sensors) if (!seen.has(s.id)) { seen.add(s.id); acc.push(s) }
\* where seen holds the ids of acc.
RECURSIVE MergeSeen(_, _)
MergeSeen(acc, sensors) ==
  IF sensors = << >> THEN acc
  ELSE MergeSeen(IF Head(sensors).id \in Ids(acc) THEN acc ELSE Append(acc, Head(sensors)),
                 Tail(sensors))

\* for (const chunk of bboxResults) for (const s of chunk) ...
RECURSIVE MergeChunks(_, _)
MergeChunks(acc, chunks) ==
  IF chunks = << >> THEN acc
  ELSE MergeChunks(MergeSeen(acc, Head(chunks)), Tail(chunks))

\* byId = new Map(accumulated.map(s => [s.id, s])); set the absent ids;
\* accumulated = [...byId.values()]
MergeById(accumulated, sensors) == MergeSeen(MergeSeen(<< >>, accumulated), sensors)

\* ------------------------------------------------------------------ keys
\* Math.round(n * 100) / 100 of n = v / 40 degrees, as a count of hundredths.
round2(v) == (5 * v + 1) \div 2

BoundsKey(norm) == <<round2(norm.west), round2(norm.south), round2(norm.east), round2(norm.north)>>

LocationBboxKey(locBbox) ==
  IF locBbox = Null THEN << >>
  ELSE <<locBbox[1].min_lat, locBbox[1].max_lat, locBbox[1].min_lon, locBbox[1].max_lon>>

\* `loc_${lat}_${lon}_${locationBboxKey}_${selectedTypesKey}_${providerFilter ?? ""}`
LocationCacheKey(r) ==
  [kind |-> "loc", at |-> <<r.loc[1].lat, r.loc[1].lon>> \o LocationBboxKey(r.locBbox),
   types |-> SelectedTypesKey(r.types), provider |-> r.provider]

\* `${debouncedBoundsKey}_${selectedTypesKey}_${providerFilter ?? ""}`, or null
ViewportCacheKey(r) ==
  IF r.vp = Null THEN Null
  ELSE Some([kind |-> "bbox", at |-> BoundsKey(r.vp[1]),
             types |-> SelectedTypesKey(r.types), provider |-> r.provider])

\* `${locationLat}_${locationLon}`
LocationKey(place) == <<place.lat, place.lon>>

\* ----------------------------------------------------------------- state
VARIABLES
  \* React state of ExplorerClient
  allSensors, progressiveVisibleCount, loadingSensors, sensorsError, radiusError,
  locationFetchUsedFallback, locationDataReady, sensorsLocationKey,
  \* refs
  lastFetchedBboxRef, lastSelectedTypesKeyRef, bboxCacheRef, locationCacheFallbackRef,
  fetchIdRef,
  \* the dependency values of the last effect run (null before mount)
  cur,
  \* the fetches whose asynchronous part has not finished, by myFetchId
  procs,
  \* history: where the published list came from, and the step taken last
  pub, last,
  \* the bounds the map has reported and what map-utils has computed from
  \* them (null while the fetch effect is the subject)
  geo,
  \* a record as the registry sent it and what the client has made of it
  \* (null while something else is the subject)
  rec,
  \* the registry client module: its negative cache, its calls in flight and
  \* the outcome of the call that returned last
  client,
  \* the bounds debounce: the reported bounds, the pending timers and what the
  \* last timer that fired has committed
  deb,
  \* the progressive reveal: the list, what of it is to be shown, the revealed
  \* count, the pending timer and whether a render's effects are still to run
  reveal,
  \* a call of a library function: what it was given and, once it has
  \* returned, its result (null while something else is the subject)
  libCall

uiVars == <<allSensors, progressiveVisibleCount, loadingSensors, sensorsError, radiusError,
            locationFetchUsedFallback, locationDataReady, sensorsLocationKey>>
refVars == <<lastFetchedBboxRef, lastSelectedTypesKeyRef, fetchIdRef>>
cacheVars == <<bboxCacheRef, locationCacheFallbackRef>>
progVars == <<uiVars, refVars, cacheVars, cur, procs, pub, last>>
auxVars == <<geo, rec, client, deb, reveal, libCall>>
vars == <<progVars, auxVars>>

\* The writes of one step: null leaves the variable alone.
NoWrites ==
  [allSensors |-> Null, progressiveVisibleCount |-> Null, loadingSensors |-> Null,
   sensorsError |-> Null, radiusError |-> Null, locationFetchUsedFallback |-> Null,
   locationDataReady |-> Null, sensorsLocationKey |-> Null,
   bboxCacheRef |-> Null, locationCacheFallbackRef |-> Null, pub |-> Null]

Written(new, old) == IF new = Null THEN old ELSE new[1]

Apply(w) ==
  /\ allSensors' = Written(w.allSensors, allSensors)
  /\ progressiveVisibleCount' = Written(w.progressiveVisibleCount, progressiveVisibleCount)
  /\ loadingSensors' = Written(w.loadingSensors, loadingSensors)
  /\ sensorsError' = Written(w.sensorsError, sensorsError)
  /\ radiusError' = Written(w.radiusError, radiusError)
  /\ locationFetchUsedFallback' = Written(w.locationFetchUsedFallback, locationFetchUsedFallback)
  /\ locationDataReady' = Written(w.locationDataReady, locationDataReady)
  /\ sensorsLocationKey' = Written(w.sensorsLocationKey, sensorsLocationKey)
  /\ bboxCacheRef' = Written(w.bboxCacheRef, bboxCacheRef)
  /\ locationCacheFallbackRef' = Written(w.locationCacheFallbackRef, locationCacheFallbackRef)
  /\ pub' = Written(w.pub, pub)

NoPub == [src |-> "none", place |-> Null, bbox |-> Null, sig |-> Null]

\* The step taken last: its kind, the fetch that took it (0: the effect),
\* and, for a publishing fetch, its request, the strategies it tried with
\* the ids each received, and whether some id reached it twice; for an
\* effect run that started a fetch, whether its key was in the cache; for
\* a publishing viewport fetch, whether a radius call of it had failed.
Event(ev, f) ==
  [ev |-> ev, f |-> f, req |-> Null, hist |-> << >>, overlap |-> FALSE, cached |-> FALSE,
   radiusFailed |-> FALSE]
FilterSig(r) == Some(<<SelectedTypesKey(r.types), r.provider>>)

\* The registry client module as loaded: an empty negative cache, no call
\* in flight, no call returned.
ClientLoaded == [noReadingCache |-> {}, pending |-> << >>, ret |-> Null]

\* The debounce after the mount: bounds is null, the effect has run its null
\* branch, no timer has been set.
DebounceMounted ==
  [bounds |-> Null, events |-> 0, timers |-> {}, cleanup |-> FALSE,
   boundsDebounceRef |-> Null, lastBoundsKeyRef |-> Null, boundsForFetchRef |-> Null,
   debouncedBoundsKey |-> Null, debouncedBounds |-> Null]

\* The reveal after the mount: an empty list, nothing revealed, no timer.
RevealMounted ==
  [allSensors |-> << >>, progressiveVisibleCount |-> 0, selectedDataTypes |-> {},
   locationFetchUsedFallback |-> FALSE, focusSensor |-> Null,
   timer |-> Null, effects |-> FALSE]

Mounted ==
  /\ allSensors = << >>
  /\ progressiveVisibleCount = 0
  /\ loadingSensors = TRUE
  /\ sensorsError = Null
  /\ radiusError = Null
  /\ locationFetchUsedFallback = FALSE
  /\ locationDataReady = TRUE
  /\ sensorsLocationKey = Null
  /\ lastFetchedBboxRef = Null
  /\ lastSelectedTypesKeyRef = << >>
  /\ bboxCacheRef = << >>
  /\ locationCacheFallbackRef = << >>
  /\ fetchIdRef = 0
  /\ cur = Null
  /\ procs = << >>
  /\ pub = NoPub
  /\ last = Event("init", 0)

Init == Mounted /\ geo = Null /\ rec = Null /\ client = ClientLoaded /\ deb = DebounceMounted /\ reveal = RevealMounted /\ libCall = Null

\* ------------------------------------------------------- staleness checks
\* The epoch comparison left out: every fetch passes for the current one.
EpochUnchecked(p) == TRUE

\* myFetchId === fetchIdRef.current
EpochCurrent(p) == p.id = fetchIdRef

\* cancelled || myFetchId !== fetchIdRef.current
Stale(p) == p.cancelled \/ ~EpochCurrent(p)

\* An outcome of a continuation: the fetch's next local state (null when its
\* asynchronous function has nothing left to run) and the writes it made.
Outcome(proc, w, ev) == [proc |-> proc, w |-> w, ev |-> ev]

\* ------------------------------------------------------- location fetch
HasTypeFilter(typesToFetch) == \E i \in 1..Len(typesToFetch) : typesToFetch[i] # Null

StartTier(p, tier) ==
  [p EXCEPT !.pc = tier, !.typeIdx = 1, !.page = 1, !.acc = << >>,
            !.hist = Append(@, [tier |-> tier, got |-> {}])]

\* finally { if (myFetchId === fetchIdRef.current) { ... } }
LocationFinally(p, w) ==
  IF EpochCurrent(p)
  THEN [w EXCEPT !.loadingSensors = Some(FALSE), !.locationDataReady = Some(TRUE),
                 !.sensorsLocationKey = Some(Some(LocationKey(p.req.loc[1])))]
  ELSE w

\* catch (err) { if (myFetchId === fetchIdRef.current) setSensorsError(...) }
LocationCatch(p, w) ==
  IF EpochCurrent(p)
  THEN [w EXCEPT !.sensorsError = Some(Some("Failed to load sensors"))]
  ELSE w

\* const pad = 1; locationBounds = point +- pad
LocationWindow(place) ==
  [west |-> place.lon - D(1), south |-> place.lat - D(1),
   east |-> place.lon + D(1), north |-> place.lat + D(1)]

LocationCenter(place) == [lat2 |-> 2 * place.lat, lon2 |-> 2 * place.lon]

\* The store without its guard: an empty list is cached as well.
LocationStoreAlways(cache, key, sorted) == MapSet(cache, key, sorted)

\* if (sorted.length > 0) bboxCacheRef.current.set(cacheKey, sorted)
LocationStore(cache, key, sorted) ==
  IF Len(sorted) > 0 THEN MapSet(cache, key, sorted) ELSE cache

\* Lines 1127-1153 and the finally block.
LocationPublish(p, accumulated, usedFallback) ==
  IF ~EpochCurrent(p) THEN Outcome(Null, LocationFinally(p, NoWrites), "locReturn")
  ELSE
    LET place == p.req.loc[1]
        inArea == filterSensorsByBounds(accumulated, LocationWindow(place))
        sorted == sortSensorsByCenter(inArea, LocationCenter(place))
        stored == LocationStore(bboxCacheRef, p.cacheKey[1], sorted)
        fallbacks == IF Len(sorted) > 0
                     THEN MapSet(locationCacheFallbackRef, p.cacheKey[1], usedFallback)
                     ELSE locationCacheFallbackRef
        w == [NoWrites EXCEPT
                !.allSensors = Some(sorted),
                !.progressiveVisibleCount = Some(Len(sorted)),
                !.locationFetchUsedFallback = Some(usedFallback),
                !.bboxCacheRef = Some(EvictOldest(stored)),
                !.locationCacheFallbackRef = Some(fallbacks),
                !.pub = Some([src |-> "loc", place |-> Some(LocationKey(place)),
                              bbox |-> Null, sig |-> FilterSig(p.req)])]
    IN Outcome(Null, LocationFinally(p, w), "locPublish")

\* return (or return []) out of the async function: only finally runs.
LocationReturn(p) == Outcome(Null, LocationFinally(p, NoWrites), "locReturn")

LocationThrow(p) ==
  Outcome(Null, LocationFinally(p, LocationCatch(p, NoWrites)), "locThrow")

\* The chain with the 25 km and 80 km radii in the wrong order.
NextTierSwapped(tier, typesToFetch) ==
  CASE tier = "bbox" -> "r8"
    [] tier = "r8" -> "r80"
    [] tier = "r80" -> "r25"
    [] tier = "r25" -> IF HasTypeFilter(typesToFetch) THEN "unfiltered" ELSE "box05"
    [] tier = "unfiltered" -> "box05"
    [] tier = "box05" -> "box1"
    [] OTHER -> "publish"

\* The strategy tried after `tier` came back empty.
NextTier(tier, typesToFetch) ==
  CASE tier = "bbox" -> "r8"
    [] tier = "r8" -> "r25"
    [] tier = "r25" -> "r80"
    [] tier = "r80" -> IF HasTypeFilter(typesToFetch) THEN "unfiltered" ELSE "box05"
    [] tier = "unfiltered" -> "box05"
    [] tier = "box05" -> "box1"
    [] OTHER -> "publish"

\* usedFallback never set by a strategy.
UsedFallbackKept(p, tier, accumulated) == p.usedFallback

\* usedFallback after a tier has run: the 25 km tier sets it whatever it
\* returned (line 989); the later strategies set it when they found records.
UsedFallbackAfter(p, tier, accumulated) ==
  \/ p.usedFallback
  \/ tier = "r25"
  \/ (tier \in {"unfiltered", "box05", "box1"} /\ Len(accumulated) > 0)

\* What the chain does once a strategy has produced `accumulated`.
AfterTier(p, tier, accumulated) ==
  LET usedFallback == UsedFallbackAfter(p, tier, accumulated)
      result == IF tier \in {"box05", "box1"}
                THEN sortSensorsByCenter(accumulated, LocationCenter(p.req.loc[1]))
                ELSE accumulated
      next == NextTier(tier, p.types)
  IN IF Len(accumulated) > 0 \/ next = "publish"
     THEN LocationPublish(p, result, usedFallback)
     ELSE Outcome(Some(StartTier([p EXCEPT !.usedFallback = usedFallback], next)),
                  NoWrites, "await")

\* One resolved page of the pending call of a location strategy.
LocationStep(p, res) ==
  LET tier == p.pc
      acc == MergeSeen(p.acc, res.sensors)
      perType == tier # "unfiltered"
  IN IF Stale(p) THEN
       \* fetchWithOpts returns []; the inline loops return from the function
       IF tier \in {"bbox", "r8", "r25", "r80"} THEN AfterTier(p, tier, << >>)
       ELSE LocationReturn(p)
     ELSE IF res.more /\ p.page + 1 <= RADIUS_MAX_PAGES
       THEN Outcome(Some([p EXCEPT !.acc = acc, !.page = p.page + 1]), NoWrites, "await")
     ELSE IF perType /\ p.typeIdx < Len(p.types)
       THEN Outcome(Some([p EXCEPT !.acc = acc, !.page = 1, !.typeIdx = p.typeIdx + 1]),
                    NoWrites, "await")
     ELSE AfterTier(p, tier, acc)

\* ------------------------------------------------------- viewport fetch
\* One task per (type, segment), type-major (lines 1229-1265).
BboxTasks(typesToFetch, segments) ==
  [k \in 1..(Len(typesToFetch) * Len(segments)) |->
     [type |-> typesToFetch[((k - 1) \div Len(segments)) + 1],
      seg |-> segments[((k - 1) % Len(segments)) + 1]]]

TaskCount(p) == Len(BboxTasks(p.types, p.segments))

\* As many workers as there are tasks, whatever the limit.
WorkerPerTask(a, b) == b

Min(a, b) == IF a < b THEN a ELSE b

\* One radius pass without a category, whatever the filter.
OnePassForAll(typesToFetch) == <<Null>>

\* typesForRadius (lines 1285-1290)
TypesForRadius(typesToFetch) ==
  IF Len(typesToFetch) >= 2 THEN SelectSeq(typesToFetch, LAMBDA ty : ty # Null)
  ELSE IF Len(typesToFetch) = 1 /\ typesToFetch[1] # Null THEN <<typesToFetch[1]>>
  ELSE <<Null>>

\* The fetch that ends without a finally block: loading is left as it is.
ViewportFinallyMissing(p, w) == w

\* finally { if (myFetchId === fetchIdRef.current) setLoadingSensors(false) }
ViewportFinally(p, w) ==
  IF EpochCurrent(p) THEN [w EXCEPT !.loadingSensors = Some(FALSE)] ELSE w

\* A catch block that swallows the error.
ViewportCatchSilent(p, w) == w

\* catch (err) { if (myFetchId === fetchIdRef.current) setSensorsError(...) }
ViewportCatch(p, w) ==
  IF EpochCurrent(p)
  THEN [w EXCEPT !.sensorsError = Some(Some("Failed to load sensors"))]
  ELSE w

\* Lines 1322-1341 and the finally block: the radius loop has ended.
AfterRadius(p) ==
  LET w0 == IF p.radiusFailed /\ EpochCurrent(p)
            THEN [NoWrites EXCEPT !.radiusError = Some(Some("Offshore sensors may be incomplete."))]
            ELSE NoWrites
  IN IF ~EpochCurrent(p) THEN Outcome(Null, ViewportFinally(p, w0), "bboxReturn")
     ELSE
       LET sorted == sortSensorsByCenter(p.acc, centerFromBounds(p.bbox))
           stored == IF p.cacheKey # Null
                     THEN EvictOldest(MapSet(bboxCacheRef, p.cacheKey[1], sorted))
                     ELSE bboxCacheRef
           w == [w0 EXCEPT
                   !.allSensors = Some(sorted),
                   !.progressiveVisibleCount = Some(0),
                   !.bboxCacheRef = Some(stored),
                   !.pub = Some([src |-> "bbox", place |-> Null,
                                 bbox |-> Some(expandBounds(p.bbox, VIEWPORT_CUSHION)),
                                 sig |-> FilterSig(p.req)])]
       IN Outcome(Null, ViewportFinally(p, w), "bboxPublish")

\* The radius loop moves to its next type, or ends.
NextRadiusType(p) ==
  IF p.typeIdx < Len(TypesForRadius(p.types))
  THEN Outcome(Some([p EXCEPT !.typeIdx = p.typeIdx + 1, !.page = 1]), NoWrites, "await")
  ELSE AfterRadius(p)

\* One resolved page of the pending radius call (lines 1296-1316).
RadiusStep(p, res) ==
  IF Stale(p) THEN Outcome(Null, ViewportFinally(p, NoWrites), "bboxReturn")
  ELSE LET q == [p EXCEPT !.acc = MergeById(p.acc, res.sensors)]
       IN IF res.more /\ p.page + 1 <= RADIUS_MAX_PAGES
          THEN Outcome(Some([q EXCEPT !.page = p.page + 1]), NoWrites, "await")
          ELSE NextRadiusType(q)

\* The failure of a radius call left to the outer catch.
RadiusCatchOuter(p) ==
  Outcome(Null, ViewportFinally(p, ViewportCatch(p, NoWrites)), "bboxThrow")

\* catch (err) { radiusFailed = true } around one type's radius pages
RadiusCatch(p) == NextRadiusType([p EXCEPT !.radiusFailed = TRUE])

RECURSIVE TotalLen(_)
TotalLen(chunks) == IF chunks = << >> THEN 0 ELSE Len(Head(chunks)) + TotalLen(Tail(chunks))

\* Promise.all(workers) has resolved (lines 1270-1282).
AfterBboxPhase(p) ==
  IF Stale(p) THEN Outcome(Null, ViewportFinally(p, NoWrites), "bboxReturn")
  ELSE LET merged == MergeChunks(<< >>, p.results)
       IN Outcome(Some([p EXCEPT !.pc = "radius", !.typeIdx = 1, !.page = 1,
                                 !.acc = merged,
                                 !.hist = <<[tier |-> "rect", got |-> Ids(merged)]>>,
                                 !.overlap = Len(merged) < TotalLen(p.results)]),
                  NoWrites, "await")

\* runNext after task i has returned: the worker takes the next task from
\* the shared index, or ends; the last worker to end resolves Promise.all.
WorkerNext(p, i) ==
  IF p.index < TaskCount(p)
  THEN Outcome(Some([p EXCEPT !.index = p.index + 1,
                              !.running = (p.running \ {i}) \cup {p.index + 1}]),
               NoWrites, "await")
  ELSE LET q == [p EXCEPT !.running = p.running \ {i}]
       IN IF q.running # {} THEN Outcome(Some(q), NoWrites, "await")
          ELSE IF q.settled THEN Outcome(Null, NoWrites, "drain")
          ELSE AfterBboxPhase(q)

\* The task loop without its page cap.
BboxTaskStepUncapped(p, i, res) ==
  IF p.cancelled THEN WorkerNext(p, i)
  ELSE LET q == [p EXCEPT !.results[i] = @ \o res.sensors]
       IN IF res.more
          THEN Outcome(Some([q EXCEPT !.tpage[i] = @ + 1]), NoWrites, "await")
          ELSE WorkerNext(q, i)

\* The task whose result goes to the slot of the shared index, which other
\* workers have moved on since the task was started.
BboxTaskStepSharedIndex(p, i, res) ==
  IF p.cancelled THEN WorkerNext(p, i)
  ELSE LET q == [p EXCEPT !.results[p.index] = @ \o res.sensors]
       IN IF res.more /\ p.tpage[i] < BBOX_MAX_PAGES
          THEN Outcome(Some([q EXCEPT !.tpage[i] = @ + 1]), NoWrites, "await")
          ELSE WorkerNext(q, i)

\* One resolved page of bbox task i (lines 1248-1263).
BboxTaskStep(p, i, res) ==
  IF p.cancelled THEN WorkerNext(p, i)
  ELSE LET q == [p EXCEPT !.results[i] = @ \o res.sensors]
       IN IF res.more /\ p.tpage[i] < BBOX_MAX_PAGES
          THEN Outcome(Some([q EXCEPT !.tpage[i] = @ + 1]), NoWrites, "await")
          ELSE WorkerNext(q, i)

\* Task i throws: its worker rejects, so Promise.all rejects at once (catch
\* and finally run); the other workers keep taking tasks.
BboxTaskThrow(p, i) ==
  LET q == [p EXCEPT !.running = p.running \ {i}, !.settled = TRUE]
      w == IF p.settled THEN NoWrites ELSE ViewportFinally(p, ViewportCatch(p, NoWrites))
  IN Outcome(IF q.running = {} THEN Null ELSE Some(q), w,
             IF p.settled THEN "drain" ELSE "bboxThrow")

\* ---------------------------------------------------------------- effect
NewProc(id, r, mode) ==
  [id |-> id, mode |-> mode, cancelled |-> FALSE, settled |-> FALSE, req |-> r,
   cacheKey |-> Null, bbox |-> INITIAL_BOUNDS, types |-> TypesToFetch(r.types),
   segments |-> << >>, pc |-> "new", typeIdx |-> 1, page |-> 1, acc |-> << >>,
   usedFallback |-> FALSE, radiusFailed |-> FALSE,
   index |-> 0, running |-> {}, tpage |-> << >>, results |-> << >>,
   hist |-> << >>, discarded |-> FALSE, overlap |-> FALSE]

\* The effect's cleanup: cancelled = true in the closure of the previous run.
Cleanup == [f \in DOMAIN procs |-> [procs[f] EXCEPT !.cancelled = TRUE]]

\* useEffect(..., [hasLocationCoords]) (lines 776-782): runs at mount and when
\* hasLocationCoords changes.
LocationFlagEffect(r) ==
  IF (cur = Null \/ (cur[1].loc # Null) # (r.loc # Null)) /\ r.loc = Null
  THEN [NoWrites EXCEPT !.locationFetchUsedFallback = Some(FALSE),
                        !.locationDataReady = Some(TRUE),
                        !.sensorsLocationKey = Some(Null)]
  ELSE NoWrites

\* The debounced viewport is null at mount, and once the map has reported
\* bounds it is not null again.
Reported(r) ==
  /\ cur = Null => r.vp = Null
  /\ (cur # Null /\ cur[1].vp # Null) => r.vp # Null

\* The entry without setAllSensors([]): the previous records stay.
LocationEntryKeepsList(w) ==
  [w EXCEPT !.loadingSensors = Some(TRUE), !.locationDataReady = Some(FALSE)]

\* Lines 892-894: loading, not ready, previous records cleared.
LocationEntry(w) ==
  [w EXCEPT !.loadingSensors = Some(TRUE),
            !.locationDataReady = Some(FALSE),
            !.allSensors = Some(<< >>),
            !.pub = Some([NoPub EXCEPT !.src = "cleared"])]

\* The location branch of the fetch effect (lines 890-1171), with at most
\* maxFetches network fetches in a run.
RequestLocationUpTo(r, maxFetches) ==
  /\ r.loc # Null
  /\ LET place == r.loc[1]
         cacheKey == LocationCacheKey(r)
         cached == MapGet(bboxCacheRef, cacheKey)
         w1 == LocationEntry(LocationFlagEffect(r))
         storedFallback == MapGet(locationCacheFallbackRef, cacheKey)
     IN IF cached # Null /\ Len(cached[1]) > 0
        THEN /\ Apply([w1 EXCEPT
                         !.allSensors = Some(cached[1]),
                         !.progressiveVisibleCount = Some(Len(cached[1])),
                         !.loadingSensors = Some(FALSE),
                         !.locationDataReady = Some(TRUE),
                         !.sensorsLocationKey = Some(Some(LocationKey(place))),
                         !.sensorsError = Some(Null),
                         !.radiusError = Some(Null),
                         !.locationFetchUsedFallback =
                            Some(IF storedFallback = Null THEN FALSE ELSE storedFallback[1]),
                         !.pub = Some([src |-> "loc", place |-> Some(LocationKey(place)),
                                       bbox |-> Null, sig |-> FilterSig(r)])])
             /\ procs' = Cleanup
             /\ last' = [Event("locHit", 0) EXCEPT !.req = Some(r)]
             /\ UNCHANGED refVars
        ELSE LET myFetchId == fetchIdRef + 1
                 p == [NewProc(myFetchId, r, "loc") EXCEPT !.cacheKey = Some(cacheKey)]
             IN /\ fetchIdRef < maxFetches
                /\ Apply([w1 EXCEPT !.sensorsError = Some(Null), !.radiusError = Some(Null)])
                /\ fetchIdRef' = myFetchId
                /\ procs' = Cleanup @@ (myFetchId :>
                              StartTier(p, IF r.locBbox # Null THEN "bbox" ELSE "r8"))
                /\ last' = [Event("locFetch", myFetchId) EXCEPT
                              !.cached = MapHas(bboxCacheRef, cacheKey)]
                /\ UNCHANGED <<lastFetchedBboxRef, lastSelectedTypesKeyRef>>
  \* a place search leaves the debounced viewport as it is
  /\ cur' = Some([r EXCEPT !.vp = IF cur = Null THEN Null ELSE cur[1].vp])
  /\ UNCHANGED auxVars

RequestLocation(r) == RequestLocationUpTo(r, MaxFetches)

\* The skip that also resets the error flags, as the cache hit does.
ContainmentSkipClearsErrors(w) ==
  [w EXCEPT !.loadingSensors = Some(FALSE), !.sensorsError = Some(Null),
            !.radiusError = Some(Null)]

\* Lines 1192-1193: the containment check has passed, setLoadingSensors(false)
\* and return.
ContainmentSkip(w) == [w EXCEPT !.loadingSensors = Some(FALSE)]

\* The viewport branch of the fetch effect (lines 1173-1356), with at most
\* maxFetches network fetches in a run.
RequestViewportUpTo(r, maxFetches) ==
  /\ r.loc = Null
  /\ Reported(r)
  /\ LET selectedTypesKey == SelectedTypesKey(r.types)
         lastFetched == IF selectedTypesKey # lastSelectedTypesKeyRef THEN Null
                        ELSE lastFetchedBboxRef
         bbox == IF r.vp # Null THEN r.vp[1] ELSE INITIAL_BOUNDS
         cacheKey == ViewportCacheKey(r)
         cached == IF cacheKey # Null THEN MapGet(bboxCacheRef, cacheKey[1]) ELSE Null
         w0 == LocationFlagEffect(r)
     IN /\ lastSelectedTypesKeyRef' = selectedTypesKey
        /\ IF lastFetched # Null /\ boundsContained(bbox, lastFetched[1])
           THEN /\ Apply(ContainmentSkip(w0))
                /\ procs' = Cleanup
                /\ lastFetchedBboxRef' = lastFetched
                /\ last' = Event("skip", 0)
                /\ UNCHANGED fetchIdRef
           ELSE IF cached # Null
           THEN /\ Apply([w0 EXCEPT
                            !.allSensors = Some(cached[1]),
                            !.progressiveVisibleCount = Some(Len(cached[1])),
                            !.loadingSensors = Some(FALSE),
                            !.sensorsError = Some(Null),
                            !.radiusError = Some(Null),
                            !.pub = Some([src |-> "bbox", place |-> Null,
                                          bbox |-> Some(expandBounds(bbox, VIEWPORT_CUSHION)),
                                          sig |-> FilterSig(r)])])
                /\ procs' = Cleanup
                /\ lastFetchedBboxRef' = lastFetched
                /\ last' = Event("bboxHit", 0)
                /\ UNCHANGED fetchIdRef
           ELSE LET expandedBbox == expandBounds(bbox, VIEWPORT_CUSHION)
                    segments == boundsToFetchSegments(expandedBbox)
                    myFetchId == fetchIdRef + 1
                    p0 == [NewProc(myFetchId, r, "bbox") EXCEPT
                             !.cacheKey = cacheKey, !.bbox = bbox, !.segments = segments,
                             !.pc = "bbox"]
                    n == TaskCount(p0)
                    started == Min(BBOX_CONCURRENCY, n)
                IN /\ fetchIdRef < maxFetches
                   /\ Apply([w0 EXCEPT !.loadingSensors = Some(TRUE),
                                       !.sensorsError = Some(Null),
                                       !.radiusError = Some(Null)])
                   /\ lastFetchedBboxRef' = Some(expandedBbox)
                   /\ fetchIdRef' = myFetchId
                   /\ procs' = Cleanup @@ (myFetchId :>
                        [p0 EXCEPT !.index = started, !.running = 1..started,
                                   !.tpage = [k \in 1..n |-> 1],
                                   !.results = [k \in 1..n |-> << >>]])
                   /\ last' = [Event("bboxFetch", myFetchId) EXCEPT
                                 !.cached = cacheKey # Null /\ MapHas(bboxCacheRef, cacheKey[1])]
  /\ cur' = Some(r)
  /\ UNCHANGED auxVars

RequestViewport(r) == RequestViewportUpTo(r, MaxFetches)

\* ------------------------------------------------- registry call results
\* A continuation has run: the fetch goes on or is over, its writes land.
\* `last` records the steps that end a fetch or write shared state.
Continue(f, out, q) ==
  /\ procs' = IF out.proc = Null
              THEN [g \in DOMAIN procs \ {f} |-> procs[g]]
              ELSE [procs EXCEPT ![f] = out.proc[1]]
  /\ Apply(out.w)
  /\ last' = IF out.ev = "await" THEN last
             ELSE IF out.ev \in {"locPublish", "bboxPublish"}
               THEN [Event(out.ev, f) EXCEPT !.req = Some(q.req), !.hist = q.hist,
                                             !.overlap = q.overlap,
                                             !.radiusFailed = q.radiusFailed]
             ELSE Event(out.ev, f)
  /\ UNCHANGED <<refVars, cur, auxVars>>

Answers(page) == {res \in Responses : res.more => page < MaxRegistryPages}

\* The page numbers a loop can ask the registry for.
PageNumbers == 1..(RADIUS_MAX_PAGES + BBOX_MAX_PAGES)

\* History: the ids the strategy being tried has collected from the registry
\* and whether an id arrived that the fetch already held; a stale fetch
\* drops what the strategy collected, and `discarded` tells whether that
\* was any record.
Got(p, res) ==
  IF Stale(p) THEN [p EXCEPT !.discarded = @ \/ res.sensors # << >> \/ p.acc # << >>,
                             !.hist[Len(p.hist)].got = {}]
  ELSE [p EXCEPT !.hist[Len(p.hist)].got = @ \cup Ids(res.sensors),
                 !.overlap = @ \/ Ids(res.sensors) \cap Ids(p.acc) # {}]

\* The pending getSensors call of a location fetch resolves with one of the
\* answers that the registry has for page n.
LocationResolveIn(f, answers) ==
  /\ f \in DOMAIN procs
  /\ procs[f].mode = "loc"
  /\ \E res \in answers[procs[f].page] :
       LET q == Got(procs[f], res)
       IN Continue(f, LocationStep(q, res), q)

\* The pending getSensors call of a location fetch resolves with one of
\* `responses`.
LocationResolveWith(f, responses) ==
  LocationResolveIn(f, [n \in PageNumbers |-> Answers(n) \cap responses])

\* The pending getSensors call of a location fetch resolves.
LocationResolve(f) == LocationResolveWith(f, Responses)

\* The pending getSensors call of a location fetch fails.
LocationFail(f) ==
  /\ f \in DOMAIN procs
  /\ procs[f].mode = "loc"
  /\ Continue(f, LocationThrow(procs[f]), procs[f])

\* The pending page of bbox task i resolves with one of the answers that
\* the registry has for page n.
BboxResolveIn(f, i, answers) ==
  /\ f \in DOMAIN procs
  /\ procs[f].pc = "bbox"
  /\ i \in procs[f].running
  /\ \E res \in answers[procs[f].tpage[i]] :
       Continue(f, BboxTaskStep(procs[f], i, res), procs[f])

\* The pending page of bbox task i resolves with one of `responses`.
BboxResolveWith(f, i, responses) ==
  BboxResolveIn(f, i, [n \in PageNumbers |-> Answers(n) \cap responses])

\* The pending page of bbox task i resolves.
BboxResolve(f, i) == BboxResolveWith(f, i, Responses)

\* The pending page of bbox task i fails.
BboxFail(f, i) ==
  /\ f \in DOMAIN procs
  /\ procs[f].pc = "bbox"
  /\ i \in procs[f].running
  /\ Continue(f, BboxTaskThrow(procs[f], i), procs[f])

\* The pending radius call of a viewport fetch resolves with one of the
\* answers that the registry has for page n.
RadiusResolveIn(f, answers) ==
  /\ f \in DOMAIN procs
  /\ procs[f].pc = "radius"
  /\ \E res \in answers[procs[f].page] :
       LET q == [procs[f] EXCEPT !.overlap = @ \/ Ids(res.sensors) \cap Ids(procs[f].acc) # {}]
       IN Continue(f, RadiusStep(q, res), q)

\* The pending radius call of a viewport fetch resolves with one of
\* `responses`.
RadiusResolveWith(f, responses) ==
  RadiusResolveIn(f, [n \in PageNumbers |-> Answers(n) \cap responses])

\* The pending radius call of a viewport fetch resolves.
RadiusResolve(f) == RadiusResolveWith(f, Responses)

\* The pending radius call of a viewport fetch fails.
RadiusFail(f) ==
  /\ f \in DOMAIN procs
  /\ procs[f].pc = "radius"
  /\ Continue(f, RadiusCatch(procs[f]), [procs[f] EXCEPT !.radiusFailed = TRUE])

FetchIds == 1..MaxFetches
\* At most one task per sensor type and fetch segment (three segments at most).
TaskIds == 1..(Len(SensorTypeOrder) * 3)

Next ==
  \/ \E r \in Requests : RequestLocation(r)
  \/ \E r \in Requests : RequestViewport(r)
  \/ \E f \in FetchIds : LocationResolve(f)
  \/ \E f \in FetchIds : LocationFail(f)
  \/ \E f \in FetchIds, i \in TaskIds : BboxResolve(f, i)
  \/ \E f \in FetchIds, i \in TaskIds : BboxFail(f, i)
  \/ \E f \in FetchIds : RadiusResolve(f)
  \/ \E f \in FetchIds : RadiusFail(f)

Spec == Init /\ [][Next]_vars

\* ----------------------------------------------- calls that are answered
\* The mount, a wide viewport and a place search, so that a fetch of either
\* mode can supersede a fetch of the other.
LifeRequests ==
  { Req(Null, Null, {}, Null),
    Req(Null, Null, {}, Some(View3)),
    Req(Some(Place1), Some(Place1Bbox), {}, Null) }

\* The effect runs again: a dependency has changed (or the component has
\* re-rendered with the same values).
SomeRequest ==
  \/ \E r \in LifeRequests : RequestLocation(r)
  \/ \E r \in LifeRequests : RequestViewport(r)

\* The requests give a fetch two bbox tasks at most (one type, two segments).
LifeTaskIds == 1..2

\* The registry finds nothing or one record, with or without a page to follow.
LifeResponses == {res \in Responses : Len(res.sensors) <= 1}

\* A registry call in flight resolves or fails.
SomeCallSettles ==
  \/ \E f \in FetchIds : LocationResolveWith(f, LifeResponses) \/ LocationFail(f)
  \/ \E f \in FetchIds, i \in LifeTaskIds :
       BboxResolveWith(f, i, LifeResponses) \/ BboxFail(f, i)
  \/ \E f \in FetchIds : RadiusResolveWith(f, LifeResponses) \/ RadiusFail(f)

LifeNext == SomeRequest \/ SomeCallSettles

\* The program with its registry calls answered: while a call is in flight,
\* some call in flight is eventually settled and its continuation runs.
AnsweredSpec == Init /\ [][LifeNext]_vars /\ WF_vars(SomeCallSettles)

\* --------------------------------------------------- filter changes
\* The viewport branch alone, before the map has reported bounds, with the
\* category filter and the provider filter (?provider=) changing.
FilterRequests ==
  { Req(Null, Null, {}, Null),
    Req(Null, Null, {"wind"}, Null),
    [Req(Null, Null, {}, Null) EXCEPT !.provider = "epa"] }

FilterNext ==
  \/ \E r \in FilterRequests : RequestViewport(r)
  \/ \E f \in FetchIds, i \in TaskIds : BboxResolve(f, i)
  \/ \E f \in FetchIds, i \in TaskIds : BboxFail(f, i)
  \/ \E f \in FetchIds : RadiusResolve(f)
  \/ \E f \in FetchIds : RadiusFail(f)

FilterSpec == Init /\ [][FilterNext]_vars

\* ------------------------------------------------------ the task pool
\* The viewport branch with more bbox tasks than BBOX_CONCURRENCY: the mount
\* without a filter (one task), then a viewport of two segments with two
\* categories that stand for three sensor types (six tasks).
PoolRequests ==
  { Req(Null, Null, {}, Null),
    Req(Null, Null, {"humidity", "wave_height"}, Some(View3)) }

\* The registry's answers to the bbox tasks: one record, on a last page or
\* with a page to follow.
PoolResponses == {res \in Responses : res.sensors = <<SensorA>>}

PoolNext ==
  \/ \E r \in PoolRequests : RequestViewport(r)
  \/ \E f \in FetchIds, i \in TaskIds : BboxResolveWith(f, i, PoolResponses)
  \/ \E f \in FetchIds, i \in TaskIds : BboxFail(f, i)
  \/ \E f \in FetchIds : RadiusResolve(f)
  \/ \E f \in FetchIds : RadiusFail(f)

PoolSpec == Init /\ [][PoolNext]_vars

\* --------------------------------------------- the order of the answers
\* A registry whose answer depends on the request alone: what it answers to
\* page n of bbox task i. Task 1 has two pages, task 4 finds nothing, and
\* the tasks return the same records in different positions.
TaskAnswer(i, n) ==
  LET pages == CASE i = 1 -> <<(<<SensorA>>), <<SensorB>>>>
                 [] i = 2 -> <<(<<SensorB, SensorC>>)>>
                 [] i = 3 -> <<(<<SensorC, SensorA>>)>>
                 [] i = 4 -> <<(<< >>)>>
                 [] i = 5 -> <<(<<SensorA>>)>>
                 [] OTHER -> <<(<<SensorB, SensorA, SensorC>>)>>
  IN IF n <= Len(pages) THEN [sensors |-> pages[n], more |-> n < Len(pages)]
     ELSE [sensors |-> << >>, more |-> FALSE]

\* The pool of six tasks with the answers of that registry arriving in any
\* order, and no call failing.
OrderNext ==
  \/ \E r \in PoolRequests : RequestViewport(r)
  \/ \E f \in FetchIds, i \in TaskIds :
       BboxResolveIn(f, i, [n \in PageNumbers |-> {TaskAnswer(i, n)}])
  \/ \E f \in FetchIds : RadiusResolve(f)

OrderSpec == Init /\ [][OrderNext]_vars

\* ------------------------------------------------ tasks and radius passes
\* Viewport fetches with no, one and two registry categories, over one and
\* two segments: the mount without a filter, a viewport with the filter
\* "aqi" (one sensor type) and a wide viewport of two segments with a filter
\* of two data types that stand for two sensor types.
PassRequests ==
  { Req(Null, Null, {}, Null),
    Req(Null, Null, {"aqi"}, Some(View1)),
    Req(Null, Null, {"water_quality", "wave_height"}, Some(View3)) }

PassNext ==
  \/ \E r \in PassRequests : RequestViewport(r)
  \/ \E f \in FetchIds, i \in TaskIds : BboxResolveWith(f, i, PoolResponses)
  \/ \E f \in FetchIds, i \in TaskIds : BboxFail(f, i)
  \/ \E f \in FetchIds : RadiusResolveWith(f, PoolResponses)
  \/ \E f \in FetchIds : RadiusFail(f)

PassSpec == Init /\ [][PassNext]_vars

\* ------------------------------------------------------- long listings
\* A registry whose listings have LongRegistryPages pages: every page but the
\* last may be full. The mount (one bbox task, one radius pass) and a place
\* search with a filter of two sensor types and no geocoder box.
PageRequests ==
  { Req(Null, Null, {}, Null),
    Req(Some(Place2), Null, {"wind"}, Null) }
PageAnswers(page) ==
  {res \in {[sensors |-> <<SensorA>>, more |-> TRUE],
            [sensors |-> <<SensorA>>, more |-> FALSE],
            [sensors |-> << >>, more |-> FALSE]} :
     res.more => page < LongRegistryPages}

PageNext ==
  \/ \E r \in PageRequests : RequestLocation(r)
  \/ \E r \in PageRequests : RequestViewport(r)
  \/ \E f \in FetchIds : LocationResolveIn(f, [n \in PageNumbers |-> PageAnswers(n)])
  \/ \E f \in FetchIds : LocationFail(f)
  \/ \E f \in FetchIds, i \in TaskIds : BboxResolveIn(f, i, [n \in PageNumbers |-> PageAnswers(n)])
  \/ \E f \in FetchIds, i \in TaskIds : BboxFail(f, i)
  \/ \E f \in FetchIds : RadiusResolveIn(f, [n \in PageNumbers |-> PageAnswers(n)])
  \/ \E f \in FetchIds : RadiusFail(f)

PageSpec == Init /\ [][PageNext]_vars

\* ------------------------------------------------- filling the cache
\* Fetches that run one after another, each for a key of its own, until the
\* cache has had more keys than it keeps: the mount, then viewports with a
\* place search for every fifth; a key still in the cache may be asked for
\* again.
\* The registry answers a place search with nothing or with one record near
\* the place, and a viewport call with that record.
CacheView(k) ==
  [west |-> D(-123), south |-> D(k), east |-> D(-122), north |-> D(k + 1)]
CachePlace(k) == [lat |-> D(37) + k, lon |-> D(-122)]
CacheRequest(k) ==
  IF k = 1 THEN Req(Null, Null, {}, Null)
  ELSE IF k % 5 = 0 THEN Req(Some(CachePlace(k)), Null, {}, Null)
  ELSE Req(Null, Null, {}, Some(CacheView(k)))
CacheKey(k) ==
  IF CacheRequest(k).loc # Null THEN Some(LocationCacheKey(CacheRequest(k)))
  ELSE ViewportCacheKey(CacheRequest(k))
StoreIds == 1..MaxStores
CacheResponses == {[sensors |-> <<SensorA>>, more |-> FALSE]}
CachePlaceResponses == CacheResponses \cup {[sensors |-> << >>, more |-> FALSE]}

\* No fetch is under way, and key k is the next new one or is in the cache.
InTurn(k) ==
  /\ procs = << >>
  /\ \/ k = fetchIdRef + 1
     \/ CacheKey(k) # Null /\ MapHas(bboxCacheRef, CacheKey(k)[1])

CacheNext ==
  \/ \E k \in StoreIds : InTurn(k) /\ RequestLocationUpTo(CacheRequest(k), MaxStores)
  \/ \E k \in StoreIds : InTurn(k) /\ RequestViewportUpTo(CacheRequest(k), MaxStores)
  \/ \E f \in StoreIds : LocationResolveWith(f, CachePlaceResponses)
  \/ \E f \in StoreIds, i \in TaskIds : BboxResolveWith(f, i, CacheResponses)
  \/ \E f \in StoreIds : RadiusResolveWith(f, CacheResponses)

CacheSpec == Init /\ [][CacheNext]_vars

\* ------------------------------------------------- bounds computations
\* The functions of map-utils applied, in the order of the debounce effect
\* and of the viewport branch, to bounds as the map reports them: normalize,
\* expand by a margin, test the containment of the viewport in its expansion,
\* split into the segments of the bbox requests.
LonDegrees ==
  {-600, -193, -180, -179, -170, -165, -100, -85, -10, 0,
   10, 85, 100, 165, 170, 179, 180, 193, 600}
LatDegrees == {<<-10, 10>>, <<37, 38>>}
ReportedBounds ==
  {[west |-> D(w), south |-> D(l[1]), east |-> D(e), north |-> D(l[2])] :
     w \in LonDegrees, e \in LonDegrees, l \in LatDegrees}
\* Normalized bounds of an earlier fetch.
FetchedLons == {-180, -170, -20, 20, 160, 170, 180}
FetchedBounds ==
  {[west |-> D(w), south |-> D(-10), east |-> D(e), north |-> D(10)] :
     w \in FetchedLons, e \in FetchedLons}
Margins == {VIEWPORT_CUSHION, <<1, 2>>, <<1, 1>>}

GeoInit ==
  /\ Mounted
  /\ rec = Null
  /\ client = ClientLoaded
  /\ deb = DebounceMounted /\ reveal = RevealMounted /\ libCall = Null
  /\ \E b \in ReportedBounds :
       geo = Some([stage |-> "reported", bounds |-> b, norm |-> Null, again |-> Null,
                   margin |-> Null, expanded |-> Null, contained |-> Null,
                   segments |-> << >>, fetched |-> Null, skip |-> Null])

\* const norm = normalizeBounds(bounds) (line 860); `again` is the result
\* normalized once more.
Normalize ==
  /\ geo[1].stage = "reported"
  /\ LET norm == normalizeBounds(geo[1].bounds)
     IN geo' = Some([geo[1] EXCEPT !.stage = "normalized", !.norm = Some(norm),
                                   !.again = Some(normalizeBounds(norm))])
  /\ UNCHANGED <<progVars, rec, client, deb, reveal, libCall>>

\* expandBounds(bbox, margin) and boundsContained(bbox, expanded), as the
\* containment check meets them when the viewport has not moved.
Expand(m) ==
  /\ geo[1].stage = "normalized"
  /\ LET expanded == expandBounds(geo[1].norm[1], m)
     IN geo' = Some([geo[1] EXCEPT !.stage = "expanded", !.margin = Some(m),
                                   !.expanded = Some(expanded),
                                   !.contained =
                                      Some(boundsContained(geo[1].norm[1], expanded))])
  /\ UNCHANGED <<progVars, rec, client, deb, reveal, libCall>>

\* const segments = boundsToFetchSegments(expandedBbox); the function is
\* applied to normalized bounds as they are, too (margin null).
Split ==
  /\ geo[1].stage \in {"normalized", "expanded"}
  /\ LET box == IF geo[1].expanded # Null THEN geo[1].expanded[1] ELSE geo[1].norm[1]
     IN geo' = Some([geo[1] EXCEPT !.stage = "split",
                                   !.segments = boundsToFetchSegments(box)])
  /\ UNCHANGED <<progVars, rec, client, deb, reveal, libCall>>

\* boundsContained(vp, lastFetchedBboxRef.current) for the normalized bounds
\* and the bounds of an earlier fetch.
Contain(fetched) ==
  /\ geo[1].stage = "normalized"
  /\ geo' = Some([geo[1] EXCEPT !.stage = "compared", !.fetched = Some(fetched),
                                !.skip = Some(boundsContained(geo[1].norm[1], fetched))])
  /\ UNCHANGED <<progVars, rec, client, deb, reveal, libCall>>

GeoNext ==
  \/ Normalize
  \/ \E fetched \in FetchedBounds : Contain(fetched)
  \/ \E m \in Margins : Expand(m)
  \/ Split

GeoSpec == GeoInit /\ [][GeoNext]_vars

\* ------------------------------------------------------ registry records
\* normalizeSensor applied to a record of a registry answer, and
\* filterSensorsByBounds applied to the result.
RawValues ==
  { JsonNull, JsonNumber(0), JsonNumber(D(37)),
    JsonString(<<"3", "7", ".", "5">>), JsonString(<<"-", "1", "2", "2">>),
    JsonString(<<" ", "0">>), JsonString(<< >>), JsonString(<<"n", "/", "a">>),
    JsonString(<<"1", "2", "a", "b">>),
    JsonBool(FALSE), JsonBool(TRUE), JsonEmptyArray, JsonObject }
RawRecords ==
  {[id |-> "a", sensor_type |-> "buoy", latitude |-> la, longitude |-> lo,
    lat |-> alt, lon |-> JsonNull, lng |-> alt, geometry |-> g] :
     la \in RawValues, lo \in RawValues, alt \in {JsonNull, JsonNumber(D(1))},
     g \in {Null, Some(<<JsonNumber(D(2)), JsonString(<<"4", "8">>)>>)}}
FilterBounds ==
  { [west |-> D(-180), south |-> D(-90), east |-> D(180), north |-> D(90)],
    [west |-> D(170), south |-> D(-90), east |-> D(-170), north |-> D(90)],
    View1 }

RecordInit ==
  /\ Mounted
  /\ geo = Null
  /\ client = ClientLoaded
  /\ deb = DebounceMounted /\ reveal = RevealMounted /\ libCall = Null
  /\ \E s \in RawRecords :
       rec = Some([stage |-> "raw", raw |-> s, sensor |-> Null, bounds |-> Null,
                   kept |-> << >>])

\* const sensors = raw.map(normalizeSensor)
NormalizeRecord ==
  /\ rec[1].stage = "raw"
  /\ rec' = Some([rec[1] EXCEPT !.stage = "normalized",
                                !.sensor = Some(normalizeSensor(rec[1].raw))])
  /\ UNCHANGED <<progVars, geo, client, deb, reveal, libCall>>

FilterRecord(b) ==
  /\ rec[1].stage = "normalized"
  /\ rec' = Some([rec[1] EXCEPT !.stage = "filtered", !.bounds = Some(b),
                                !.kept = filterSensorsByBounds(<<rec[1].sensor[1]>>, b)])
  /\ UNCHANGED <<progVars, geo, client, deb, reveal, libCall>>

RecordNext ==
  \/ NormalizeRecord
  \/ \E b \in FilterBounds : FilterRecord(b)

RecordSpec == RecordInit /\ [][RecordNext]_vars

\* -------------------------------------------------------- registry client
\* The four calls of the registry client, each from its fetch to its return
\* or throw, and the negative cache of getLatestReading.
HttpStatuses == {200, 204, 404, 429, 500}
\* res.ok
Ok(status) == status >= 200 /\ status <= 299
\* The parsed body of an OK answer to readings/latest.
ReadingBodies == {"reading", "null"}

\* getSensors: throws on every non-OK status.
getSensorsReturn(status) == IF ~Ok(status) THEN "error" ELSE "data"
\* getSensor: null on 404, throws on every other non-OK status.
NotFoundThrows(status) == IF ~Ok(status) THEN "error" ELSE "data"
getSensorReturn(status) ==
  IF status = 404 THEN "null" ELSE IF ~Ok(status) THEN "error" ELSE "data"
\* getLatestReading: null on 404, throws on every other non-OK status, null
\* for a null body.
getLatestReadingReturn(status, body) ==
  IF status = 404 THEN "null"
  ELSE IF ~Ok(status) THEN "error"
  ELSE IF body = "null" THEN "null" ELSE "data"
\* getSensorTypes: throws on every non-OK status.
getSensorTypesReturn(status) == IF ~Ok(status) THEN "error" ELSE "data"

\* if (noReadingCache.size >= MAX_NO_READING_CACHE) noReadingCache.clear();
\* noReadingCache.add(sensorId)
AddKeepingAll(cache, sensorId) == cache \cup {sensorId}
AddNoReading(cache, sensorId) ==
  IF Cardinality(cache) >= MAX_NO_READING_CACHE THEN {sensorId}
  ELSE cache \cup {sensorId}

\* The ids the callers ask about when they fill the negative cache: the
\* lowest id it does not hold and the one before it, and none that is more
\* than one away from the id of a call in flight.
FirstAbsent(cache) ==
  CHOOSE i \in 1..MaxSensorIds : i \notin cache /\ \A j \in 1..(i - 1) : j \in cache
AskedIds ==
  LET first == FirstAbsent(client.noReadingCache)
  IN {id \in {first - 1, first} :
       /\ id >= 1
       /\ \A i \in DOMAIN client.pending :
            client.pending[i].id - id \in {-1, 0, 1}}
FewIds == 1..3

Returned(fn, id, status, network, result) ==
  Some([fn |-> fn, id |-> id, status |-> status, network |-> network,
        result |-> result])

\* The calls in flight once call i has returned or thrown.
Remove(pending, i) == SubSeq(pending, 1, i - 1) \o SubSeq(pending, i + 1, Len(pending))

ClientInit == Init

\* getLatestReading(sensorId) up to its fetch: an id of the negative cache
\* returns null at once.
CallLatestReading(id) ==
  /\ IF id \in client.noReadingCache
       THEN client' = [client EXCEPT !.ret = Returned("getLatestReading", id, Null, FALSE, "null")]
       ELSE /\ Len(client.pending) < MaxPending
            /\ client' = [client EXCEPT
                 !.pending = Append(@, [fn |-> "getLatestReading", id |-> id])]
  /\ UNCHANGED <<progVars, geo, rec, deb, reveal, libCall>>

\* getSensors, getSensor(id) and getSensorTypes up to their fetch.
CallRegistry(fn, id) ==
  /\ Len(client.pending) < MaxPending
  /\ client' = [client EXCEPT !.pending = Append(@, [fn |-> fn, id |-> id])]
  /\ UNCHANGED <<progVars, geo, rec, deb, reveal, libCall>>

\* Call i continues after its fetch with the status (and, from
\* readings/latest, the body) of the response.
Answered(i, status, body) ==
  /\ i \in DOMAIN client.pending
  /\ LET call == client.pending[i]
         result == CASE call.fn = "getSensors" -> getSensorsReturn(status)
                     [] call.fn = "getSensor" -> getSensorReturn(status)
                     [] call.fn = "getSensorTypes" -> getSensorTypesReturn(status)
                     [] OTHER -> getLatestReadingReturn(status, body)
         noReading == call.fn = "getLatestReading" /\ result = "null"
     IN client' = [noReadingCache |->
                     IF noReading THEN AddNoReading(client.noReadingCache, call.id)
                     ELSE client.noReadingCache,
                   pending |-> Remove(client.pending, i),
                   ret |-> Returned(call.fn, call.id, Some(status), TRUE, result)]

\* The registry answers call i with a status (and, to readings/latest, a body).
Answer(i, status, body) ==
  /\ Answered(i, status, body)
  /\ UNCHANGED <<progVars, geo, rec, deb, reveal, libCall>>

\* fetch rejects (no answer at all): the call throws.
FetchFails(i) ==
  /\ i \in DOMAIN client.pending
  /\ client' = [client EXCEPT
       !.pending = Remove(@, i),
       !.ret = Returned(client.pending[i].fn, client.pending[i].id, Null, TRUE, "error")]
  /\ UNCHANGED <<progVars, geo, rec, deb, reveal, libCall>>

\* All four calls, about a few sensors.
ClientNext ==
  \/ \E id \in FewIds : CallLatestReading(id)
  \/ \E id \in FewIds : CallRegistry("getSensor", id)
  \/ CallRegistry("getSensors", 0)
  \/ CallRegistry("getSensorTypes", 0)
  \/ \E i \in 1..MaxPending, status \in HttpStatuses, body \in ReadingBodies :
       Answer(i, status, body)
  \/ \E i \in 1..MaxPending : FetchFails(i)

ClientSpec == ClientInit /\ [][ClientNext]_vars

\* getLatestReading alone, about enough sensors to fill the negative cache.
NoReadingNext ==
  \/ \E id \in AskedIds : CallLatestReading(id)
  \/ \E i \in 1..MaxPending, status \in {200, 404, 500}, body \in ReadingBodies :
       Answer(i, status, body)
  \/ \E i \in 1..MaxPending : FetchFails(i)

NoReadingSpec == ClientInit /\ [][NoReadingNext]_vars

\* ------------------------------------------------- readings/latest proxy
\* In the browser getLatestReading asks the route
\* /api/sensors/:id/readings/latest, whose GET handler asks the registry with
\* a timer of 10 s that aborts the request.
\* What becomes of the handler's fetch: an answer of the registry, the abort
\* by the timer, or a rejection for another reason.
Upstreams ==
  [kind : {"answer"}, status : {200, 404, 500}, body : ReadingBodies]
    \cup {[kind |-> "timeout", status |-> 0, body |-> "none"],
          [kind |-> "failure", status |-> 0, body |-> "none"]}

\* GET (lines 21-59): 500 without an API key; 200 and null for a 404 of the
\* registry; the registry's status for another non-OK answer; 200 and the
\* data for an OK answer; 200 and null when the timer aborted the request;
\* any other rejection is rethrown, which the framework answers with 500.
ProxyResponse(apiKey, upstream) ==
  IF ~apiKey THEN [status |-> 500, body |-> "error"]
  ELSE IF upstream.kind = "answer"
    THEN IF upstream.status = 404 THEN [status |-> 200, body |-> "null"]
         ELSE IF ~Ok(upstream.status) THEN [status |-> upstream.status, body |-> "error"]
         ELSE [status |-> 200, body |-> upstream.body]
  ELSE IF upstream.kind = "timeout" THEN [status |-> 200, body |-> "null"]
  ELSE [status |-> 500, body |-> "error"]

\* The route serves the request of call i.
ProxyGET(i, apiKey, upstream) ==
  /\ libCall = Null
  /\ i \in DOMAIN client.pending
  /\ client.pending[i].fn = "getLatestReading"
  /\ libCall' = Some([fn |-> "GET", given |-> [id |-> client.pending[i].id,
                                               apiKey |-> apiKey, upstream |-> upstream],
                      result |-> Some(ProxyResponse(apiKey, upstream))])
  /\ UNCHANGED <<progVars, geo, rec, client, deb, reveal>>

\* getLatestReading continues with the response of the route.
ProxyAnswered(i) ==
  /\ libCall # Null
  /\ libCall[1].fn = "GET"
  /\ i \in DOMAIN client.pending
  /\ client.pending[i].fn = "getLatestReading"
  /\ client.pending[i].id = libCall[1].given.id
  /\ Answered(i, libCall[1].result[1].status, libCall[1].result[1].body)
  /\ libCall' = Null
  /\ UNCHANGED <<progVars, geo, rec, deb, reveal>>

\* getLatestReading in the browser, about a few sensors.
ProxyNext ==
  \/ \E id \in FewIds : CallLatestReading(id)
  \/ \E i \in 1..MaxPending, apiKey \in BOOLEAN, upstream \in Upstreams :
       ProxyGET(i, apiKey, upstream)
  \/ \E i \in 1..MaxPending : ProxyAnswered(i)
  \/ \E i \in 1..MaxPending : libCall = Null /\ FetchFails(i)

ProxySpec == ClientInit /\ [][ProxyNext]_vars

\* -------------------------------------------------------- bounds debounce
\* The effect on [bounds] (lines 850-876) and its timer. Here a coordinate is
\* an integer in units of 1/200 degree, so that two values can differ and
\* still round to the same hundredth.
RECURSIVE normalizeLongitudeFine(_)
normalizeLongitudeFine(lon) ==
  IF lon < -36000 THEN normalizeLongitudeFine(lon + 72000)
  ELSE IF lon > 36000 THEN normalizeLongitudeFine(lon - 72000)
  ELSE lon
normalizeBoundsFine(bounds) ==
  [west |-> normalizeLongitudeFine(bounds.west), east |-> normalizeLongitudeFine(bounds.east),
   south |-> bounds.south, north |-> bounds.north]

\* Math.round(n * 100) / 100, in hundredths of a degree: halves round up.
round2Fine(n) == (n + 1) \div 2
\* `${round2(norm.west)}_${round2(norm.south)}_${round2(norm.east)}_${round2(norm.north)}`
BoundsKeyFine(norm) ==
  <<round2Fine(norm.west), round2Fine(norm.south), round2Fine(norm.east),
    round2Fine(norm.north)>>

\* A clearTimeout that clears nothing.
KeepTimeout(timers, handle) == timers
\* clearTimeout(handle): a handle that has fired or was cleared is ignored.
clearTimeout(timers, handle) == {t \in timers : t.id # handle}

\* What the map reports: a viewport, the same moved by 0.005 degree (inside
\* the rounding), the same moved by 0.05 degree, a viewport over the dateline
\* with west = -193, and that one with west = 167.
ReportedViews ==
  { [west |-> -24520, south |-> 7520, east |-> -24400, north |-> 7580],
    [west |-> -24521, south |-> 7519, east |-> -24401, north |-> 7579],
    [west |-> -24510, south |-> 7520, east |-> -24390, north |-> 7580],
    [west |-> -38600, south |-> -2000, east |-> -20200, north |-> 2000],
    [west |-> 33400, south |-> -2000, east |-> -20200, north |-> 2000] }

\* handleBoundsChange(b) outside a place search, and the run of the effect
\* that follows: the cleanup of the previous run, then the body.
BoundsEffect(b) ==
  /\ deb.events < MaxViewportEvents
  /\ LET afterCleanup == IF deb.cleanup /\ deb.boundsDebounceRef # Null
                         THEN clearTimeout(deb.timers, deb.boundsDebounceRef[1])
                         ELSE deb.timers
         norm == normalizeBoundsFine(b)
         boundsKey == BoundsKeyFine(norm)
         cleared == IF deb.boundsDebounceRef # Null
                    THEN clearTimeout(afterCleanup, deb.boundsDebounceRef[1])
                    ELSE afterCleanup
         handle == deb.events + 1
     IN IF Some(boundsKey) = deb.lastBoundsKeyRef
        THEN deb' = [deb EXCEPT !.bounds = Some(b), !.events = @ + 1,
                                !.timers = afterCleanup, !.cleanup = FALSE]
        ELSE deb' = [deb EXCEPT !.bounds = Some(b), !.events = @ + 1,
                                !.timers = cleared \cup
                                   {[id |-> handle, boundsKey |-> boundsKey, norm |-> norm]},
                                !.boundsDebounceRef = Some(handle),
                                !.cleanup = TRUE]
  /\ UNCHANGED <<progVars, geo, rec, client, reveal, libCall>>

\* The callback of setTimeout after BOUNDS_DEBOUNCE_MS.
TimerFires(t) ==
  /\ t \in deb.timers
  /\ deb' = [deb EXCEPT !.timers = @ \ {t},
                        !.lastBoundsKeyRef = Some(t.boundsKey),
                        !.boundsForFetchRef = Some(t.norm),
                        !.debouncedBoundsKey = Some(t.boundsKey),
                        !.debouncedBounds = Some(t.norm),
                        !.boundsDebounceRef = Null]
  /\ UNCHANGED <<progVars, geo, rec, client, reveal, libCall>>

SomeTimerFires == \E t \in deb.timers : TimerFires(t)

DebounceNext ==
  \/ \E b \in ReportedViews : BoundsEffect(b)
  \/ SomeTimerFires

DebounceSpec == Init /\ [][DebounceNext]_vars

\* A timer that is not cleared fires: the event loop runs its callback.
DebounceFairSpec == DebounceSpec /\ WF_vars(SomeTimerFires)

\* ------------------------------------------------------ progressive reveal
\* filteredByType (lines 1368-1376)
filteredByType(list, selectedDataTypes, usedFallback) ==
  IF usedFallback THEN list
  ELSE IF selectedDataTypes = {} THEN list
  ELSE LET sensorTypesToFetch == dataTypesToSensorTypes(selectedDataTypes)
           filtered == SelectSeq(list, LAMBDA s :
                         \E k \in 1..Len(sensorTypesToFetch) :
                           sensorTypesToFetch[k] = s.sensor_type)
       IN IF Len(filtered) > 0 THEN filtered ELSE list

\* sensorsToShow (lines 1388-1398)
sensorsToShow(filtered, focusSensor) ==
  IF focusSensor = Null \/ focusSensor[1].latitude = Null \/ focusSensor[1].longitude = Null
  THEN filtered
  ELSE IF \E k \in 1..Len(filtered) : filtered[k].id = focusSensor[1].id THEN filtered
  ELSE <<focusSensor[1]>> \o filtered

\* Array.prototype.slice(0, end) for end >= 0
Slice0(list, end) == SubSeq(list, 1, IF end < Len(list) THEN end ELSE Len(list))

\* displaySensors (lines 1401-1404)
displaySensors(toShow, count) == Slice0(toShow, count)

\* bbox == null ? sorted.length : 0 (line 1334)
RevealedAfterFetch(bbox, sorted) == IF bbox = Null THEN Len(sorted) ELSE 0

\* The tick without Math.min.
RevealTickUnbounded(n, length) == n + PROGRESSIVE_CHUNK_SIZE

\* Math.min(n + PROGRESSIVE_CHUNK_SIZE, sensorsToShow.length) (lines 1408-1410)
RevealTick(n, length) == Min(n + PROGRESSIVE_CHUNK_SIZE, length)

\* The clamp effect left out.
ClampNever(n, length) == n

\* if (progressiveVisibleCount > sensorsToShow.length)
\*   setProgressiveVisibleCount(sensorsToShow.length) (lines 1416-1419)
ClampEffect(n, length) == IF n > length THEN length ELSE n

\* The list to show in the state of the reveal.
ToShow(r) ==
  sensorsToShow(filteredByType(r.allSensors, r.selectedDataTypes, r.locationFetchUsedFallback),
                r.focusSensor)

\* n records of the registry, buoys and weather stations in turn.
Catalog(n) ==
  [j \in 1..n |-> [id |-> j,
                   sensor_type |-> IF j % 2 = 1 THEN "buoy" ELSE "weather_station",
                   latitude |-> Some(D(37)), longitude |-> Some(D(-122))]]

\* Lists of no record, one record, one chunk, one chunk and a record, and two
\* chunks and a record.
RevealLists ==
  {Catalog(n) : n \in {0, 1, PROGRESSIVE_CHUNK_SIZE, PROGRESSIVE_CHUNK_SIZE + 1, MaxListLen}}

\* No filter, or the filter of wave height (buoys).
RevealFilters == {{}, {"wave_height"}}

\* ?sensor= names no sensor, a sensor of every list, or a sensor of no list.
FocusSensors ==
  {Null, Some(Catalog(1)[1]), Some([Catalog(1)[1] EXCEPT !.id = 0])}

\* A render has been committed with the new state: its effects are to run.
Rendered(r) == [r EXCEPT !.effects = TRUE]

\* A viewport fetch publishes (lines 1333-1334); the viewport is never null.
PublishFetched(list) ==
  /\ reveal' = Rendered([reveal EXCEPT
                  !.allSensors = list,
                  !.progressiveVisibleCount = RevealedAfterFetch(Some(INITIAL_BOUNDS), list)])
  /\ UNCHANGED <<progVars, geo, rec, client, deb, libCall>>

\* A viewport request is served from the cache (lines 1202-1203).
PublishCached(list) ==
  /\ reveal' = Rendered([reveal EXCEPT !.allSensors = list,
                                       !.progressiveVisibleCount = Len(list)])
  /\ UNCHANGED <<progVars, geo, rec, client, deb, libCall>>

\* A location fetch publishes, or a location request is served from the
\* cache (lines 1143-1145 and 899-907).
PublishLocation(list, usedFallback) ==
  /\ reveal' = Rendered([reveal EXCEPT !.allSensors = list,
                                       !.progressiveVisibleCount = Len(list),
                                       !.locationFetchUsedFallback = usedFallback])
  /\ UNCHANGED <<progVars, geo, rec, client, deb, libCall>>

\* A location request starts: setAllSensors([]) (line 894).
ClearForLocation ==
  /\ reveal' = Rendered([reveal EXCEPT !.allSensors = << >>])
  /\ UNCHANGED <<progVars, geo, rec, client, deb, libCall>>

\* The user changes the selected data types.
SelectDataTypes(types) ==
  /\ reveal' = Rendered([reveal EXCEPT !.selectedDataTypes = types])
  /\ UNCHANGED <<progVars, geo, rec, client, deb, libCall>>

\* setFocusSensor (lines 814-826)
SetFocusSensor(focus) ==
  /\ reveal' = Rendered([reveal EXCEPT !.focusSensor = focus])
  /\ UNCHANGED <<progVars, geo, rec, client, deb, libCall>>

\* The two effects of lines 1405-1420 run after a render: the cleanup clears
\* the timer, a new timer is set when records remain to be revealed (its
\* callback closes over the length of the list), and the count is clamped,
\* which is a state change that renders again.
RevealEffects ==
  /\ reveal.effects
  /\ LET length == Len(ToShow(reveal))
         n == reveal.progressiveVisibleCount
         clamped == ClampEffect(n, length)
     IN reveal' = [reveal EXCEPT
                     !.timer = IF n >= length THEN Null ELSE Some(length),
                     !.progressiveVisibleCount = clamped,
                     !.effects = clamped # n]
  /\ UNCHANGED <<progVars, geo, rec, client, deb, libCall>>

\* The callback of the reveal timer after PROGRESSIVE_CHUNK_MS, the effects
\* of the last render having run.
RevealTimerFires ==
  /\ reveal.timer # Null
  /\ ~reveal.effects
  /\ reveal' = Rendered([reveal EXCEPT
                  !.timer = Null,
                  !.progressiveVisibleCount = RevealTick(@, reveal.timer[1])])
  /\ UNCHANGED <<progVars, geo, rec, client, deb, libCall>>

\* The list to show is replaced, filtered anew or given another focus sensor.
ListChanges ==
  \/ \E list \in RevealLists : PublishFetched(list)
  \/ \E list \in RevealLists : PublishCached(list)
  \/ \E list \in RevealLists, usedFallback \in BOOLEAN : PublishLocation(list, usedFallback)
  \/ ClearForLocation
  \/ \E types \in RevealFilters : SelectDataTypes(types)
  \/ \E focus \in FocusSensors : SetFocusSensor(focus)

RevealNext == ListChanges \/ RevealEffects \/ RevealTimerFires

RevealSpec == Init /\ [][RevealNext]_vars

\* React runs the effects of a committed render, and a timer that is not
\* cleared fires.
RevealFairSpec == RevealSpec /\ WF_vars(RevealEffects) /\ WF_vars(RevealTimerFires)

\* ------------------------------------------------------- sorting a list
\* Two records at the same distance from SortCenter, one nearer, one
\* farther, one on the center, and records lacking a coordinate.
SortRecords ==
  { [id |-> "n", sensor_type |-> "buoy", latitude |-> Some(D(37)), longitude |-> Some(D(-121))],
    [id |-> "s", sensor_type |-> "buoy", latitude |-> Some(D(36)), longitude |-> Some(D(-122))],
    [id |-> "f", sensor_type |-> "buoy", latitude |-> Some(D(48)), longitude |-> Some(D(2))],
    [id |-> "c", sensor_type |-> "buoy", latitude |-> Some(D(37)), longitude |-> Some(D(-122))],
    [id |-> "x", sensor_type |-> "buoy", latitude |-> Null, longitude |-> Some(D(-122))],
    [id |-> "y", sensor_type |-> "buoy", latitude |-> Some(D(37)), longitude |-> Null] }

\* Centers as centerFromBounds gives them (twice the coordinate).
SortCenters == {[lat2 |-> 2 * D(37), lon2 |-> 2 * D(-122)], [lat2 |-> 0, lon2 |-> 0]}

SortInputs == UNION {[1..n -> SortRecords] : n \in 0..MaxSortLen}

\* The function sorting the caller's array itself.
SortInPlace(sensors, center) ==
  [result |-> sortSensorsByCenter(sensors, center),
   sensors |-> sortSensorsByCenter(sensors, center)]

\* A call of sortSensorsByCenter (lines 187-203): filter() gives two new
\* arrays, sort() orders the first of them in place, the result is a third
\* array; the caller's array is not written.
SortCall(sensors, center) ==
  [result |-> sortSensorsByCenter(sensors, center), sensors |-> sensors]

SortInit ==
  /\ Mounted
  /\ geo = Null /\ rec = Null /\ client = ClientLoaded
  /\ deb = DebounceMounted /\ reveal = RevealMounted
  /\ \E sensors \in SortInputs, center \in SortCenters :
       libCall = Some([fn |-> "sortSensorsByCenter", given |-> sensors, sensors |-> sensors,
                    center |-> center, result |-> Null])

SortReturns ==
  /\ libCall # Null
  /\ libCall[1].fn = "sortSensorsByCenter"
  /\ libCall[1].result = Null
  /\ LET out == SortCall(libCall[1].sensors, libCall[1].center)
     IN libCall' = Some([libCall[1] EXCEPT !.result = Some(out.result), !.sensors = out.sensors])
  /\ UNCHANGED <<progVars, geo, rec, client, deb, reveal>>

SortNext == SortReturns

SortSpec == SortInit /\ [][SortNext]_vars

\* ------------------------------------------------- the query of getSensors
\* String(n) of an integer: its decimal digits after its sign.
RECURSIVE DecimalDigits(_)
DecimalDigits(n) ==
  IF n < 10 THEN <<DigitChars[n + 1]>>
  ELSE DecimalDigits(n \div 10) \o <<DigitChars[(n % 10) + 1]>>
String(n) == IF n < 0 THEN <<"-">> \o DecimalDigits(0 - n) ELSE DecimalDigits(n)

\* URLSearchParams.set: the value of the name is replaced where it stands,
\* or the pair is appended.
ParamsSet(params, name, value) ==
  IF \E k \in 1..Len(params) : params[k].name = name
  THEN [k \in 1..Len(params) |->
          IF params[k].name = name THEN [name |-> name, value |-> value] ELSE params[k]]
  ELSE Append(params, [name |-> name, value |-> value])

\* if (cond) params.set(name, value)
ParamsSetIf(cond, params, name, value) ==
  IF cond THEN ParamsSet(params, name, value) ELSE params

Max(a, b) == IF a > b THEN a ELSE b

\* The region filters with the center taking precedence over the box.
RegionParamsCenterFirst(params, options) ==
  IF options.lat # Null /\ options.lon # Null
  THEN ParamsSetIf(options.radius_km # Null,
         ParamsSet(ParamsSet(params, "lat", String(options.lat[1])),
                   "lon", String(options.lon[1])),
         "radius_km", String(Min(1000, Max(0, IF options.radius_km # Null
                                              THEN options.radius_km[1] ELSE 0))))
  ELSE IF options.min_lat # Null /\ options.min_lon # Null
          /\ options.max_lat # Null /\ options.max_lon # Null
  THEN ParamsSet(ParamsSet(ParamsSet(ParamsSet(params,
         "min_lat", String(options.min_lat[1])), "min_lon", String(options.min_lon[1])),
         "max_lat", String(options.max_lat[1])), "max_lon", String(options.max_lon[1]))
  ELSE params

\* Lines 106-126: the box when its four values are there, else the center
\* when lat and lon are there, with the radius clamped when there is one.
RegionParams(params, options) ==
  LET hasBbox == /\ options.min_lat # Null /\ options.min_lon # Null
                 /\ options.max_lat # Null /\ options.max_lon # Null
  IN IF hasBbox
     THEN ParamsSet(ParamsSet(ParamsSet(ParamsSet(params,
            "min_lat", String(options.min_lat[1])), "min_lon", String(options.min_lon[1])),
            "max_lat", String(options.max_lat[1])), "max_lon", String(options.max_lon[1]))
     ELSE IF options.lat # Null /\ options.lon # Null
     THEN ParamsSetIf(options.radius_km # Null,
            ParamsSet(ParamsSet(params, "lat", String(options.lat[1])),
                      "lon", String(options.lon[1])),
            "radius_km", String(Min(1000, Max(0, IF options.radius_km # Null
                                                 THEN options.radius_km[1] ELSE 0))))
     ELSE params

\* The query string of fetchApiSensors (lines 98-126); an empty string is
\* falsy, so it is not sent.
fetchApiSensorsParams(options) ==
  LET truthy(v) == v # Null /\ v[1] # ""
      p1 == ParamsSetIf(truthy(options.sensor_type), << >>, "sensor_type",
                        IF options.sensor_type # Null THEN options.sensor_type[1] ELSE "")
      p2 == ParamsSetIf(truthy(options.status), p1, "status",
                        IF options.status # Null THEN options.status[1] ELSE "")
      p3 == ParamsSetIf(truthy(options.provider), p2, "provider",
                        IF options.provider # Null THEN options.provider[1] ELSE "")
      p4 == ParamsSetIf(truthy(options.search), p3, "search",
                        IF options.search # Null THEN options.search[1] ELSE "")
      p5 == ParamsSet(p4, "page", String(IF options.page # Null THEN options.page[1] ELSE 1))
      p6 == ParamsSet(p5, "limit", String(IF options.limit # Null THEN options.limit[1] ELSE 20))
  IN RegionParams(p6, options)

\* Options of getSensors: coordinates in whole degrees (0 included), radii
\* below, in and above the range, each value given or not.
QueryOptions ==
  [sensor_type : {Null, Some("buoy")}, status : {Null}, provider : {Null, Some("")},
   search : {Null}, page : {Null, Some(2)}, limit : {Some(500)},
   min_lat : {Null, Some(0)}, min_lon : {Null, Some(-123)},
   max_lat : {Null, Some(38)}, max_lon : {Null, Some(0)},
   lat : {Null, Some(0), Some(48)}, lon : {Null, Some(-2)},
   radius_km : {Null, Some(-5), Some(0), Some(150), Some(1000), Some(1001)}]

QueryInit ==
  /\ Mounted
  /\ geo = Null /\ rec = Null /\ client = ClientLoaded
  /\ deb = DebounceMounted /\ reveal = RevealMounted
  /\ \E options \in QueryOptions :
       libCall = Some([fn |-> "getSensors", given |-> options, result |-> Null])

\* getSensors has built its query and sent the request.
QuerySent ==
  /\ libCall # Null
  /\ libCall[1].fn = "getSensors"
  /\ libCall[1].result = Null
  /\ libCall' = Some([libCall[1] EXCEPT !.result = Some(fetchApiSensorsParams(libCall[1].given))])
  /\ UNCHANGED <<progVars, geo, rec, client, deb, reveal>>

QueryNext == QuerySent

QuerySpec == QueryInit /\ [][QueryNext]_vars

\* ------------------------------------------------- buildAssistantReply
\* buildAssistantReply (assistant-reply.ts 107-400) from its call to its
\* reply. A sensor is its place in the list, with or without coordinates; a
\* reading lookup is pending, resolved (with a reading or null) or rejected.
MaxReplySensors == 3
ReplySensorIds == 1..MaxReplySensors

ReplyInputs ==
  [sensors : UNION {[1..n -> BOOLEAN] : n \in 0..MaxReplySensors},
   error : BOOLEAN, requestedTypeNotAvailable : BOOLEAN]

\* Promise.race: the first of the two promises to settle settles the race.
Settle(race, value) ==
  IF race.settled = Null THEN [race EXCEPT !.settled = Some(value)] ELSE race

\* A timer that fires without resolving anything.
TimeoutIgnored(race) == [race EXCEPT !.timer = "fired"]

\* setTimeout(() => resolve(null), READING_FETCH_TIMEOUT_MS)
TimeoutResolves(race) == Settle([race EXCEPT !.timer = "fired"], "null")

\* fetchWithTimeout(sensorId): the lookup is sent and the timer armed.
fetchWithTimeout == [lookup |-> "pending", timer |-> "armed", settled |-> Null]

\* s.latitude != null && s.longitude != null
sensorsWithCoords(sensors) == {i \in DOMAIN sensors : sensors[i]}

\* readings.filter((r) => r?.reading?.measurements != null).length
respondedCount(races) ==
  Cardinality({i \in DOMAIN races : races[i].settled = Some("reading")})

ReplyInit ==
  /\ Mounted
  /\ geo = Null /\ rec = Null /\ client = ClientLoaded
  /\ deb = DebounceMounted /\ reveal = RevealMounted
  /\ \E given \in ReplyInputs :
       libCall = Some([fn |-> "buildAssistantReply", given |-> given,
                       phase |-> "start", races |-> << >>, result |-> Null])

ReplyCall == libCall # Null /\ libCall[1].fn = "buildAssistantReply"

\* Lines 118-223: the early replies (error, no sensor with coordinates,
\* requested type not available), else one raced lookup per sensor with
\* coordinates, all started before the await.
ReplyStarts ==
  /\ ReplyCall
  /\ libCall[1].phase = "start"
  /\ LET given == libCall[1].given
         queried == sensorsWithCoords(given.sensors)
     IN libCall' = Some(
          IF given.error
            THEN [libCall[1] EXCEPT !.phase = "done", !.result = Some([kind |-> "error"])]
          ELSE IF queried = {}
            THEN [libCall[1] EXCEPT !.phase = "done", !.result = Some([kind |-> "no sensors"])]
          ELSE IF given.requestedTypeNotAvailable
            THEN [libCall[1] EXCEPT !.phase = "done", !.result = Some([kind |-> "not available"])]
          ELSE [libCall[1] EXCEPT !.phase = "gathering_data",
                                  !.races = [i \in queried |-> fetchWithTimeout]])
  /\ UNCHANGED <<progVars, geo, rec, client, deb, reveal>>

\* getLatestReading(i) resolves, with a reading or with null.
LookupResolves(i, value) ==
  /\ ReplyCall
  /\ i \in DOMAIN libCall[1].races
  /\ libCall[1].races[i].lookup = "pending"
  /\ libCall' = Some([libCall[1] EXCEPT
       !.races[i] = Settle([@ EXCEPT !.lookup = "resolved"], value)])
  /\ UNCHANGED <<progVars, geo, rec, client, deb, reveal>>

\* getLatestReading(i) throws.
LookupRejects(i) ==
  /\ ReplyCall
  /\ i \in DOMAIN libCall[1].races
  /\ libCall[1].races[i].lookup = "pending"
  /\ libCall' = Some([libCall[1] EXCEPT
       !.races[i] = Settle([@ EXCEPT !.lookup = "rejected"], "rejected")])
  /\ UNCHANGED <<progVars, geo, rec, client, deb, reveal>>

\* The timer of race i fires.
ReadingTimeout(i) ==
  /\ ReplyCall
  /\ i \in DOMAIN libCall[1].races
  /\ libCall[1].races[i].timer = "armed"
  /\ libCall' = Some([libCall[1] EXCEPT !.races[i] = TimeoutResolves(@)])
  /\ UNCHANGED <<progVars, geo, rec, client, deb, reveal>>

\* await Promise.all(...) continues: it throws as soon as one race has
\* rejected, and goes on to compute and return the reply once every race has
\* resolved (lines 221-400).
ReadingsAwaited ==
  /\ ReplyCall
  /\ libCall[1].phase = "gathering_data"
  /\ LET races == libCall[1].races
     IN \/ /\ \E i \in DOMAIN races : races[i].settled = Some("rejected")
           /\ libCall' = Some([libCall[1] EXCEPT
                !.phase = "done", !.result = Some([kind |-> "throws"])])
        \/ /\ \A i \in DOMAIN races : races[i].settled \notin {Null, Some("rejected")}
           /\ libCall' = Some([libCall[1] EXCEPT
                !.phase = "done",
                !.result = Some([kind |-> "reply",
                                 queried |-> Cardinality(DOMAIN races),
                                 respondedWithData |-> respondedCount(races)])])
  /\ UNCHANGED <<progVars, geo, rec, client, deb, reveal>>

ReplyNext ==
  \/ ReplyStarts
  \/ \E i \in ReplySensorIds, value \in ReadingBodies : LookupResolves(i, value)
  \/ \E i \in ReplySensorIds : LookupRejects(i)
  \/ \E i \in ReplySensorIds : ReadingTimeout(i)
  \/ ReadingsAwaited

ReplySpec == ReplyInit /\ [][ReplyNext]_vars

\* The event loop runs every continuation that is ready and every timer that
\* is due; nothing makes the registry answer.
ReplyFairSpec ==
  /\ ReplySpec
  /\ WF_vars(ReplyStarts)
  /\ \A i \in ReplySensorIds : WF_vars(ReadingTimeout(i))
  /\ WF_vars(ReadingsAwaited)

\* ------------------------------------------------------------ properties
\* Fetch f has run one of its continuations in this step (the effect's
\* cleanup changes nothing of a fetch but its cancelled flag).
Ran(f) ==
  /\ f \in DOMAIN procs
  /\ \/ f \notin DOMAIN procs'
     \/ [procs'[f] EXCEPT !.cancelled = procs[f].cancelled] # procs[f]

\* C1: once a newer network fetch has been initiated (the epoch has moved
\* past f), no continuation of fetch f, whether its call resolved or failed,
\* changes the list, the error, the loading flag or the cache.
C1_StaleEpochWritesNothing ==
  [][\A f \in FetchIds :
       (Ran(f) /\ f # fetchIdRef) =>
         UNCHANGED <<allSensors, sensorsError, loadingSensors, bboxCacheRef>>]_vars

\* A call of the older fetch has failed after the newer fetch began, and no
\* error is shown.
C1_Witness ==
  /\ last.ev \in {"locThrow", "bboxThrow"}
  /\ last.f < fetchIdRef
  /\ sensorsError = Null

\* C2: once a newer request has been handled in any way (network fetch,
\* cache hit or containment skip; the older fetch's closure is cancelled),
\* no continuation of the older fetch changes the list, the error, the soft
\* radius warning, the location-ready flag, the location key or the cache.
C2_SupersededWritesNothing ==
  [][\A f \in FetchIds :
       (Ran(f) /\ procs[f].cancelled) =>
         UNCHANGED <<allSensors, sensorsError, radiusError, locationDataReady,
                     sensorsLocationKey, bboxCacheRef>>]_vars

\* The viewport of the last effect run.
CurBbox == IF cur[1].vp # Null THEN cur[1].vp[1] ELSE INITIAL_BOUNDS

\* C3: when a viewport request has been skipped for containment, the
\* published list comes from a completed viewport fetch made under the
\* current filter signature whose expanded bounds contain the viewport.
C3_SkipIsCoveredByPublishedList ==
  last.ev = "skip" =>
    /\ pub.src = "bbox"
    /\ pub.sig = FilterSig(cur[1])
    /\ boundsContained(CurBbox, pub.bbox[1])

NoDuplicateIds(list) == \A i, j \in 1..Len(list) : list[i].id = list[j].id => i = j

\* C4: the published list never holds two records with the same id.
C4_NoDuplicateIds == NoDuplicateIds(allSensors)

\* A viewport fetch has published records after the registry had returned
\* some id to it more than once.
C4_Witness ==
  /\ last.ev = "bboxPublish"
  /\ last.overlap
  /\ Len(allSensors) >= 2

\* C5: an effect run whose cache key is stored in the cache starts no
\* network fetch (it issues no registry call).
C5_CachedKeyIssuesNoCall ==
  last.ev \in {"locFetch", "bboxFetch"} => ~last.cached

\* A viewport request has been served from the cache.
C5_Witness ==
  /\ last.ev = "bboxHit"
  /\ allSensors # << >>
  /\ procs = << >>

\* The strategy that produced the records of a publishing location fetch.
Producing(e) == e.hist[Len(e.hist)]

\* C6: when a location fetch publishes records found by the 25 km or 80 km
\* radius under the requested filter (radius escalation only), the
\* fallback flag is false.
C6_EscalationIsNotFallback ==
  (/\ last.ev = "locPublish"
   /\ Producing(last).tier \in {"r25", "r80"}
   /\ allSensors # << >>)
  => locationFetchUsedFallback = FALSE

\* The ids of the catalog's records that have coordinates within one degree
\* of the place.
InWindowIds(place) ==
  {s.id : s \in {c \in {SensorA, SensorB, SensorC} :
                   /\ c.latitude # Null /\ c.longitude # Null
                   /\ c.latitude[1] >= place.lat - D(1) /\ c.latitude[1] <= place.lat + D(1)
                   /\ c.longitude[1] >= place.lon - D(1) /\ c.longitude[1] <= place.lon + D(1)}}

EarlierEmpty(h) == \A i \in 1..(Len(h) - 1) : h[i].got = {}

\* C7: with a category filter set, when every filtered strategy returned
\* nothing and the unfiltered retry returned a record inside the window,
\* the published list is not empty and the fallback flag is true.
C7_TypeFallbackPublishes ==
  (/\ last.ev = "locPublish"
   /\ last.req[1].types # {}
   /\ Producing(last).tier = "unfiltered"
   /\ EarlierEmpty(last.hist)
   /\ Producing(last).got \cap InWindowIds(last.req[1].loc[1]) # {})
  => (allSensors # << >> /\ locationFetchUsedFallback = TRUE)

C7_Witness ==
  /\ last.ev = "locPublish"
  /\ Producing(last).tier = "unfiltered"
  /\ Producing(last).got \cap InWindowIds(last.req[1].loc[1]) # {}
  /\ locationFetchUsedFallback = TRUE

\* The strategies in the order the specification gives them.
Chain(r) ==
  (IF r.locBbox # Null THEN <<"bbox">> ELSE << >>)
  \o <<"r8", "r25", "r80">>
  \o (IF r.types # {} THEN <<"unfiltered">> ELSE << >>)
  \o <<"box05", "box1">>

InOrder(h, r) ==
  /\ Len(h) <= Len(Chain(r))
  /\ \A i \in 1..Len(h) : h[i].tier = Chain(r)[i]

\* C8 as stated: every location fetch tries the strategies in order, each
\* only after all earlier ones returned no record, and issues no call after
\* the registry has returned a record to it.
C8_NoCallAfterRecords ==
  \A f \in DOMAIN procs :
    procs[f].mode = "loc" =>
      /\ InOrder(procs[f].hist, procs[f].req)
      /\ EarlierEmpty(procs[f].hist)
      /\ ~procs[f].discarded

\* C8 amended: every location fetch tries the strategies in order, and a
\* strategy is tried only after every earlier one gave the fetch no record:
\* it returned none, or it answered after the fetch had been superseded
\* (the answer is then dropped and the chain goes on).
C8_OrderedUntilFirstRecords ==
  /\ \A f \in DOMAIN procs :
       procs[f].mode = "loc" =>
         /\ InOrder(procs[f].hist, procs[f].req)
         /\ EarlierEmpty(procs[f].hist)
  /\ last.ev = "locPublish" =>
       /\ InOrder(last.hist, last.req[1])
       /\ EarlierEmpty(last.hist)

\* A fetch with the geocoder's box has gone through the whole chain and
\* published what the last strategy found.
C8_Witness ==
  /\ last.ev = "locPublish"
  /\ Len(last.hist) = 6
  /\ last.hist[1].tier = "bbox"
  /\ Producing(last).tier = "box1"
  /\ allSensors # << >>

\* C9: every record of a list published in location mode (by a fetch or
\* from the cache) has coordinates, within one degree of the place.
C9_PublishedWithinWindow ==
  last.ev \in {"locPublish", "locHit"} =>
    \A i \in 1..Len(allSensors) :
      LET s == allSensors[i]
          place == last.req[1].loc[1]
      IN /\ s.latitude # Null
         /\ s.longitude # Null
         /\ s.latitude[1] - place.lat \in (0 - D(1))..D(1)
         /\ s.longitude[1] - place.lon \in (0 - D(1))..D(1)

\* The registry answered with the whole catalog (a far record and one
\* without longitude included) and the fetch published what lies inside.
C9_Witness ==
  /\ last.ev = "locPublish"
  /\ Producing(last).got = {"a", "b", "c"}
  /\ allSensors # << >>

\* C10 as stated: in location mode, from the request until a list for the
\* place is published, the list is empty and the ready flag is false.
C10_EmptyUntilPublished ==
  (cur # Null /\ cur[1].loc # Null /\ pub.src = "cleared")
  => (allSensors = << >> /\ locationDataReady = FALSE)

\* The location fetch of the last effect run is in flight.
LocFetching ==
  /\ cur # Null
  /\ cur[1].loc # Null
  /\ fetchIdRef \in DOMAIN procs
  /\ procs[fetchIdRef].mode = "loc"
  /\ ~procs[fetchIdRef].cancelled

\* C10 amended: while the location fetch of the current place is in flight
\* the list is empty and the ready flag is false; when that fetch fails, the
\* list stays empty and the ready flag becomes true.
C10_EmptyWhileFetching ==
  /\ [](LocFetching => (allSensors = << >> /\ locationDataReady = FALSE))
  /\ [][(LocFetching /\ fetchIdRef \notin DOMAIN procs' /\ last'.ev = "locThrow")
          => (allSensors' = << >> /\ locationDataReady' = TRUE)]_vars

\* A place is being fetched after an earlier fetch had published records.
C10_Witness ==
  /\ LocFetching
  /\ bboxCacheRef # << >>
  /\ bboxCacheRef[1].val # << >>

\* C11: a location fetch whose final list (after the window filter) is empty
\* leaves no cache entry under its key, no location entry of the cache holds
\* an empty list, and no location request is served an empty list from the
\* cache: the next request with that key calls the registry again.
C11_EmptyLocationListNotCached ==
  /\ \A i \in 1..Len(bboxCacheRef) :
       bboxCacheRef[i].key.kind = "loc" => bboxCacheRef[i].val # << >>
  /\ (last.ev = "locPublish" /\ allSensors = << >>)
       => ~MapHas(bboxCacheRef, LocationCacheKey(last.req[1]))
  /\ last.ev = "locHit" => allSensors # << >>

\* A location fetch has received records, all of them outside the window,
\* has published an empty list and has left no entry under its key.
C11_Witness ==
  /\ last.ev = "locPublish"
  /\ allSensors = << >>
  /\ \E i \in 1..Len(last.hist) : last.hist[i].got # {}
  /\ ~MapHas(bboxCacheRef, LocationCacheKey(last.req[1]))

\* ------------------------------------------- properties of map-utils
\* The expansion is wider than 180 degrees and stored with west < east.
WideWestEast(b) == boundsCrossDateline(b) /\ b.west < b.east

\* C12 (as stated): for every normalized bounds b and margin m > 0,
\* boundsContained(b, expandBounds(b, m)) is true unless b itself crosses
\* the antimeridian and is stored with west < east.
C12_ContainedInExpansion ==
  (geo # Null /\ geo[1].contained # Null /\ ~WideWestEast(geo[1].norm[1]))
    => geo[1].contained[1]

\* C12 (amended): for every normalized bounds b and margin m > 0,
\* boundsContained(b, expandBounds(b, m)) is true unless the expansion is
\* wider than 180 degrees and stored with west < east, and false then.
C12_ContainedUnlessExpansionWide ==
  (geo # Null /\ geo[1].contained # Null)
    => (geo[1].contained[1] <=> ~WideWestEast(geo[1].expanded[1]))

\* Bounds across the antimeridian (west > east) are contained in their
\* expansion by the viewport cushion.
C12_Witness ==
  /\ geo # Null
  /\ geo[1].contained = Some(TRUE)
  /\ geo[1].margin = Some(VIEWPORT_CUSHION)
  /\ geo[1].norm[1].west > geo[1].norm[1].east

\* Longitude x lies in bounds b, which wrap when west > east.
LonInside(b, x) ==
  IF b.west > b.east THEN x >= b.west \/ x <= b.east
  ELSE b.west <= x /\ x <= b.east

\* Every whole degree of longitude of b lies in one of the segments, which
\* have the latitudes of b.
Covers(segs, b) ==
  /\ \A d \in -180..180 :
       LonInside(b, D(d)) => \E i \in 1..Len(segs) : LonInside(segs[i], D(d))
  /\ \A i \in 1..Len(segs) : segs[i].south = b.south /\ segs[i].north = b.north

\* The normalized bounds whose segments have been computed without expansion.
SplitOfNormalized ==
  /\ geo # Null
  /\ geo[1].stage = "split"
  /\ geo[1].margin = Null
  /\ boundsCrossDateline(geo[1].norm[1])

\* west 170, east -170 splits into [170, 180] and [-180, -170].
SegmentsOf170 ==
  (geo[1].norm[1].west = D(170) /\ geo[1].norm[1].east = D(-170))
    => /\ geo[1].segments[1].west = D(170) /\ geo[1].segments[1].east = D(180)
       /\ geo[1].segments[2].west = D(-180) /\ geo[1].segments[2].east = D(-170)

\* C13 (as stated): for every normalized b with boundsCrossDateline(b),
\* boundsToFetchSegments(b) returns exactly 2 segments, their union covers b,
\* boundsCrossDateline is false for each of them, and west 170, east -170
\* gives [170, 180] and [-180, -170].
C13_TwoSegmentsNoneCrossing ==
  SplitOfNormalized
    => /\ Len(geo[1].segments) = 2
       /\ Covers(geo[1].segments, geo[1].norm[1])
       /\ \A i \in 1..2 : ~boundsCrossDateline(geo[1].segments[i])
       /\ SegmentsOf170

\* C13 (amended): for every normalized b with boundsCrossDateline(b),
\* boundsToFetchSegments(b) returns exactly 2 segments, their union covers b,
\* each has west <= east within [-180, 180], boundsCrossDateline is false for
\* each segment that is at most 180 degrees wide, and west 170, east -170
\* gives [170, 180] and [-180, -170].
C13_TwoSegmentsWestBeforeEast ==
  SplitOfNormalized
    => /\ Len(geo[1].segments) = 2
       /\ Covers(geo[1].segments, geo[1].norm[1])
       /\ \A i \in 1..2 :
            LET seg == geo[1].segments[i]
            IN /\ D(-180) <= seg.west /\ seg.west <= seg.east /\ seg.east <= D(180)
               /\ seg.east - seg.west <= D(180) => ~boundsCrossDateline(seg)
       /\ SegmentsOf170

\* The segments of west 170, east -170 have been computed.
C13_Witness ==
  /\ SplitOfNormalized
  /\ geo[1].norm[1].west = D(170)
  /\ geo[1].norm[1].east = D(-170)
  /\ Len(geo[1].segments) = 2

\* C14: for every bounds b, normalizeBounds(b) has west and east in
\* [-180, 180], the south and north of b, and is its own normalization.
C14_NormalizedInRangeIdempotent ==
  (geo # Null /\ geo[1].norm # Null)
    => LET b == geo[1].bounds
           n == geo[1].norm[1]
       IN /\ D(-180) <= n.west /\ n.west <= D(180)
          /\ D(-180) <= n.east /\ n.east <= D(180)
          /\ n.south = b.south /\ n.north = b.north
          /\ geo[1].again = Some(n)

\* Bounds more than a full turn off on both sides have been normalized.
C14_Witness ==
  /\ geo # Null
  /\ geo[1].norm # Null
  /\ geo[1].bounds.west < D(-540)
  /\ geo[1].bounds.east > D(540)
  /\ geo[1].norm[1].west # geo[1].bounds.west

\* C15: every bbox request of a viewport fetch, for a normalized viewport
\* expanded by the 15% cushion and split, has min_lon <= max_lon and both
\* longitudes in [-180, 180].
C15_RequestsAreFetchSegments ==
  (geo # Null /\ geo[1].stage = "split" /\ geo[1].margin = Some(VIEWPORT_CUSHION))
    => LET tasks == BboxTasks(<<Null>>, geo[1].segments)
       IN \A k \in 1..Len(tasks) :
            /\ tasks[k].seg.west <= tasks[k].seg.east
            /\ D(-180) <= tasks[k].seg.west
            /\ tasks[k].seg.east <= D(180)

\* ------------------------------------------ properties of the viewport fetch
\* The effect has re-run in viewport mode with the viewport it had and
\* another filter signature.
FilterChanged ==
  /\ cur # Null
  /\ cur' # Null
  /\ cur[1].loc = Null
  /\ cur'[1].loc = Null
  /\ cur'[1].vp = cur[1].vp
  /\ FilterSig(cur'[1]) # FilterSig(cur[1])

\* C16: in viewport mode, when the filter signature (categories or provider)
\* changes and the viewport stays the same, the request is not ended by the
\* containment check: it is served from the cache or starts a network fetch.
C16_FilterChangeNotSkipped ==
  [][FilterChanged => last'.ev \in {"bboxHit", "bboxFetch"}]_vars

\* The bbox tasks of fetch f that have been started and have not returned.
RunningTasks(f) == IF procs[f].pc = "bbox" THEN procs[f].running ELSE {}

\* C17: at every moment of a viewport fetch at most BBOX_CONCURRENCY (4) of
\* its bbox tasks have been started and have not finished, and a task is
\* started once at most, whatever the number of tasks and the order in which
\* the registry answers.
C17_AtMostFourTasksRunning ==
  \A f \in DOMAIN procs :
    /\ Cardinality(RunningTasks(f)) <= BBOX_CONCURRENCY
    /\ RunningTasks(f) \subseteq 1..procs[f].index

\* Six tasks, four of them running, two still to be started.
C17_Witness ==
  \E f \in DOMAIN procs :
    /\ TaskCount(procs[f]) > BBOX_CONCURRENCY
    /\ Cardinality(RunningTasks(f)) = BBOX_CONCURRENCY
    /\ procs[f].index = BBOX_CONCURRENCY + 1

\* Fetch f, current and not superseded, is in its radius pass (every bbox
\* task of it has succeeded) and ends with this step.
RadiusPassEnds(f) ==
  /\ Ran(f)
  /\ procs[f].pc = "radius"
  /\ ~Stale(procs[f])
  /\ f \notin DOMAIN procs'

\* C18: a viewport fetch whose bbox tasks all succeeded and that is still
\* current when its radius pass ends publishes, whether or not a radius call
\* failed; when one failed, the published list holds every record of the
\* merged rectangular results, the error flag is null and the radius warning
\* is set.
C18_RadiusFailureStillPublishes ==
  /\ []((last.ev = "bboxPublish" /\ last.radiusFailed)
          => /\ sensorsError = Null
             /\ radiusError # Null
             /\ last.hist[1].got \subseteq Ids(allSensors)
             /\ NoDuplicateIds(allSensors))
  /\ [][\A f \in FetchIds :
          RadiusPassEnds(f) => (last'.ev = "bboxPublish" /\ last'.f = f)]_vars

\* A fetch whose radius call failed has published its rectangular records.
C18_Witness ==
  /\ last.ev = "bboxPublish"
  /\ last.radiusFailed
  /\ last.hist[1].got # {}
  /\ radiusError # Null
  /\ sensorsError = Null

\* A registry call of fetch f, whose epoch is the current one, fails in this
\* step and ends the fetch's function: a call of a location strategy, or the
\* first bbox task to fail.
CallFails(f) ==
  /\ Ran(f)
  /\ EpochCurrent(procs[f])
  /\ ~procs[f].settled
  /\ last'.f = f
  /\ \/ procs[f].mode = "loc" /\ last'.ev = "locThrow"
     \/ procs[f].pc = "bbox" /\ last'.ev = "bboxThrow"

\* A step of a viewport fetch whose function has ended with a failure (its
\* other workers go on).
AfterFailure(f) == Ran(f) /\ procs[f].settled

\* C19: when a registry call of the current fetch fails in the rectangular
\* phase or in a location strategy, the error flag holds a message, loading
\* is false, the fetch publishes no list (then or later), the cache is as it
\* was, and the list on screen is as it was.
C19_FailureSetsErrorOnly ==
  [][\A f \in FetchIds :
       /\ CallFails(f)
            => /\ sensorsError' # Null
               /\ loadingSensors' = FALSE
               /\ allSensors' = allSensors
               /\ pub' = pub
               /\ UNCHANGED cacheVars
       /\ AfterFailure(f)
            => UNCHANGED <<uiVars, cacheVars, pub>>]_vars

\* A bbox task of the current fetch has failed while a list fetched before
\* is on screen and in the cache.
C19_Witness ==
  /\ last.ev = "bboxThrow"
  /\ last.f = fetchIdRef
  /\ sensorsError # Null
  /\ ~loadingSensors
  /\ allSensors # << >>
  /\ bboxCacheRef # << >>

\* C20: the result cache never holds more than BBOX_CACHE_MAX_ENTRIES (20)
\* entries after a store step, and the entry a viewport or location fetch
\* has just stored is in the cache after that step.
C20_CacheBoundedKeepsNewest ==
  /\ Len(bboxCacheRef) <= BBOX_CACHE_MAX_ENTRIES
  /\ (last.ev = "bboxPublish" /\ ViewportCacheKey(last.req[1]) # Null)
       => MapGet(bboxCacheRef, ViewportCacheKey(last.req[1])[1]) = Some(allSensors)
  /\ (last.ev = "locPublish" /\ allSensors # << >>)
       => MapGet(bboxCacheRef, LocationCacheKey(last.req[1])) = Some(allSensors)

\* The cache is full, the first key stored (that of the second fetch) has
\* been evicted, and the key just stored is in it.
C20_Witness ==
  /\ Len(bboxCacheRef) = BBOX_CACHE_MAX_ENTRIES
  /\ last.ev \in {"bboxPublish", "locPublish"}
  /\ ~MapHas(bboxCacheRef, CacheKey(2)[1])
  /\ MapHas(bboxCacheRef, CacheKey(last.f)[1])

\* The list on screen is that of viewport key k: it was published or served
\* from the cache for k, and no cache entry has been stored or served since.
OnScreen(k) ==
  /\ CacheRequest(k).vp # Null
  /\ pub.src = "bbox"
  /\ pub.bbox = Some(expandBounds(CacheRequest(k).vp[1], VIEWPORT_CUSHION))
  /\ pub.sig = FilterSig(CacheRequest(k))

\* The store of this step has put the cache over capacity and the first key
\* has been deleted.
Evicts == Len(bboxCacheRef) = BBOX_CACHE_MAX_ENTRIES /\ Head(bboxCacheRef') # Head(bboxCacheRef)

\* C21: the cache is LRU: the key evicted by an insertion is the least
\* recently used one, so it is not the key used (stored or served as a hit)
\* last before that insertion while other keys are in the cache.
C21_EvictsLeastRecentlyUsed ==
  [][Evicts => \A k \in StoreIds :
       ~(OnScreen(k) /\ CacheKey(k) = Some(Head(bboxCacheRef).key))]_vars

\* ------------------------------------------ properties of the registry client
\* The string is a decimal number and nothing else.
NumericString(s) ==
  LET signed == s # << >> /\ Head(s) = "-"
      int == ReadDigits(IF signed THEN Tail(s) ELSE s, 0, 0)
      frac == IF int.rest # << >> /\ Head(int.rest) = "."
              THEN ReadDigits(Tail(int.rest), 0, 0)
              ELSE [val |-> 0, len |-> 0, rest |-> int.rest]
  IN int.len > 0 /\ frac.rest = << >> /\ (int.rest = << >> \/ frac.len > 0)

\* The value is a number or a numeric string.
Numeric(v) == v.t = "number" \/ (v.t = "string" /\ NumericString(v.s))

\* The values a record offers for its latitude and for its longitude.
LatitudeSources(s) == {s.latitude, s.lat, Coordinate(s, 1)}
LongitudeSources(s) == {s.longitude, s.lon, s.lng, Coordinate(s, 0)}

\* C22: normalizeSensor gives latitude and longitude as a number or null;
\* the number of a numeric string for a numeric string; null, never 0, when
\* the record has no numeric value for the coordinate (missing or
\* unparseable); and filterSensorsByBounds keeps no record with a null
\* latitude or longitude, whatever the bounds.
C22_CoordinatesNumberOrNull ==
  (rec # Null /\ rec[1].sensor # Null)
    => LET raw == rec[1].raw
           s == rec[1].sensor[1]
       IN /\ (raw.latitude.t = "string" /\ NumericString(raw.latitude.s))
               => s.latitude = parseFloat(raw.latitude.s)
          /\ (raw.longitude.t = "string" /\ NumericString(raw.longitude.s))
               => s.longitude = parseFloat(raw.longitude.s)
          /\ (\A v \in LatitudeSources(raw) : ~Numeric(v)) => s.latitude = Null
          /\ (\A v \in LongitudeSources(raw) : ~Numeric(v)) => s.longitude = Null
          /\ (rec[1].stage = "filtered" /\ ~HasCoords(s)) => rec[1].kept = << >>

\* A call has taken its answer (or its failure) in this step.
CallReturns == Len(client'.pending) < Len(client.pending)
\* A call has been sent to the registry in this step.
CallSent == Len(client'.pending) > Len(client.pending)
\* The call sent in this step.
SentCall == client'.pending[Len(client'.pending)]
\* getLatestReading has returned in this step without a call to the registry.
ReturnsAtOnce == ~CallReturns /\ ~CallSent /\ client' # client

\* C23: once the registry has answered not-found for an id, the id is in
\* the negative cache, and it stays there until the cache is cleared; a
\* getLatestReading for an id of the negative cache returns null and sends
\* nothing to the registry; the negative cache never holds more than
\* MAX_NO_READING_CACHE ids, and it loses ids only when an insertion finds
\* it at that size, and then all of them at once.
C23_NotFoundIsRemembered ==
  /\ [](Cardinality(client.noReadingCache) <= MAX_NO_READING_CACHE)
  /\ [][/\ (/\ CallReturns
             /\ client'.ret[1].fn = "getLatestReading"
             /\ client'.ret[1].status = Some(404))
            => client'.ret[1].id \in client'.noReadingCache
        /\ (CallSent /\ SentCall.fn = "getLatestReading")
            => SentCall.id \notin client.noReadingCache
        /\ \A id \in client.noReadingCache :
             (ReturnsAtOnce /\ client'.ret[1].id = id)
               => client'.ret = Returned("getLatestReading", id, Null, FALSE, "null")
        /\ ~(client.noReadingCache \subseteq client'.noReadingCache)
            => /\ Cardinality(client.noReadingCache) >= MAX_NO_READING_CACHE
               /\ CallReturns
               /\ client'.noReadingCache = {client'.ret[1].id}]_vars

\* The negative cache has been cleared by the insertion of id 501, id 1 has
\* been reported not-found after that, and a later getLatestReading(1) has
\* returned null without a call to the registry.
C23_Witness ==
  /\ client.noReadingCache = {1, MAX_NO_READING_CACHE + 1}
  /\ client.ret = Returned("getLatestReading", 1, Null, FALSE, "null")

\* C24: a call of getSensor or getLatestReading that the registry answered
\* with 404 has returned null, not thrown; a call of getSensors, getSensor,
\* getLatestReading or getSensorTypes that the registry answered with any
\* other status outside 200..299 has thrown.
C24_NotFoundIsNullOtherErrorsThrow ==
  (client.ret # Null /\ client.ret[1].status # Null)
    => LET r == client.ret[1]
           status == r.status[1]
       IN /\ (r.fn \in {"getSensor", "getLatestReading"} /\ status = 404)
               => r.result = "null"
          /\ (status # 404 /\ status \notin 200..299) => r.result = "error"

\* getSensor has returned null for a 404 while a getSensors call is in flight.
C24_Witness ==
  /\ client.ret = Returned("getSensor", 1, Some(404), TRUE, "null")
  /\ client.pending = <<[fn |-> "getSensors", id |-> 0]>>

\* Every point of inner lies inside outer, a box with west > east reaching
\* from its west through +-180 to its east (whole degrees decide it: all
\* corners are on whole degrees).
EveryPointInside(inner, outer) ==
  /\ inner.south >= outer.south
  /\ inner.north <= outer.north
  /\ \A d \in -180..180 : LonInside(inner, D(d)) => LonInside(outer, D(d))

\* C25: for normalized bounds, boundsContained(inner, outer) is true only
\* if every point of inner lies inside outer, a box with west > east being
\* read as wrapping through +-180.
C25_ContainedOnlyIfEveryPointInside ==
  (geo # Null /\ geo[1].skip = Some(TRUE))
    => EveryPointInside(geo[1].norm[1], geo[1].fetched[1])

\* boundsToFetchSegments has been applied, and the box it was applied to.
HasSplit == geo # Null /\ geo[1].stage = "split"
SplitBox == IF geo[1].expanded # Null THEN geo[1].expanded[1] ELSE geo[1].norm[1]
\* West 180 with east -180, or a span of 360 degrees or more.
FullWorld(b) == (b.west = D(180) /\ b.east = D(-180)) \/ b.east - b.west >= D(360)
\* West > east, or a span of more than 180 degrees.
CrossesAntimeridian(b) == b.west > b.east \/ b.east - b.west > D(180)
Strip(b, w, e) == [west |-> D(w), south |-> b.south, east |-> D(e), north |-> b.north]

\* C26: for every full-world bounds (west 180 with east -180, or a span of at
\* least 360 degrees such as west -180, east 180) boundsToFetchSegments
\* returns exactly the hemispheres [-180, 0] and [0, 180] with the south
\* and north of the input.
C26_FullWorldGivesHemispheres ==
  (HasSplit /\ FullWorld(SplitBox))
    => geo[1].segments = <<Strip(SplitBox, -180, 0), Strip(SplitBox, 0, 180)>>

\* C27: for a normalized box that neither crosses the antimeridian nor is
\* full-world, boundsToFetchSegments returns the box itself, then the strip
\* [165, 180] if west <= -165, then the strip [-180, -165] if east >= 165,
\* and nothing else; every segment has the south and north of the box, and
\* there are between 1 and 3 segments.
C27_BoxThenStrips ==
  (HasSplit /\ ~CrossesAntimeridian(SplitBox) /\ ~FullWorld(SplitBox))
    => LET b == SplitBox
           segs == geo[1].segments
       IN /\ segs = <<b>>
                    \o (IF b.west <= D(-165) THEN <<Strip(b, 165, 180)>> ELSE << >>)
                    \o (IF b.east >= D(165) THEN <<Strip(b, -180, -165)>> ELSE << >>)
          /\ \A i \in 1..Len(segs) : segs[i].south = b.south /\ segs[i].north = b.north
          /\ Len(segs) \in 1..3

\* The box from 100 to 170 degrees has been split into itself and the strip
\* [-180, -165].
C27_Witness ==
  /\ HasSplit
  /\ SplitBox.west = D(100)
  /\ SplitBox.east = D(170)
  /\ geo[1].segments = <<SplitBox, Strip(SplitBox, -180, -165)>>

\* The registry categories fetch p asks for, and max(1, k).
Categories(p) == dataTypesToSensorTypes(p.req.types)
AtLeastOne(k) == IF k = 0 THEN 1 ELSE k
\* Answers whose page is not full.
NotFull == {res \in Responses : ~res.more}
\* Fetch f runs for an empty filter over a single segment and has not been
\* cancelled or superseded.
PlainFetch(f) ==
  /\ f \in DOMAIN procs
  /\ procs[f].mode = "bbox"
  /\ Categories(procs[f]) = << >>
  /\ Len(procs[f].segments) = 1
  /\ ~Stale(procs[f])

\* C28: a viewport network fetch over s segments with k registry categories
\* has max(1, k) * s bbox tasks, one per (category, segment), without a
\* category when k = 0; its radius passes start only when every bbox task
\* has finished; a fetch that publishes has run max(1, k) radius passes, one
\* after the other, pass j for category j when k >= 2; and with an empty
\* filter, one segment and pages that are not full, the first answer to the
\* one bbox task ends the bbox phase and the first answer to the radius call
\* publishes: 1 bbox request and 1 radius request.
C28_TasksAndRadiusPasses ==
  /\ [](\A f \in DOMAIN procs :
          LET p == procs[f]
              k == Len(Categories(p))
              s == Len(p.segments)
              tasks == BboxTasks(p.types, p.segments)
          IN p.mode = "bbox"
             => /\ Len(p.tpage) = AtLeastOne(k) * s
                /\ Len(tasks) = AtLeastOne(k) * s
                /\ \A c \in 1..AtLeastOne(k), j \in 1..s :
                     \E i \in 1..Len(tasks) :
                       /\ tasks[i].seg = p.segments[j]
                       /\ tasks[i].type = IF k = 0 THEN Null ELSE Some(Categories(p)[c])
                /\ p.pc = "radius"
                     => /\ p.running = {}
                        /\ p.index = AtLeastOne(k) * s
                        /\ ~p.settled
                        /\ p.typeIdx \in 1..AtLeastOne(k)
                        /\ k >= 2 => TypesForRadius(p.types)[p.typeIdx]
                                        = Some(Categories(p)[p.typeIdx]))
  /\ [][\A f \in DOMAIN procs :
          /\ (f \in DOMAIN procs' /\ procs[f].pc = "radius")
               => procs'[f].typeIdx \in {procs[f].typeIdx, procs[f].typeIdx + 1}
          /\ (f \in DOMAIN procs' /\ procs[f].pc = "bbox" /\ procs'[f].pc = "radius")
               => procs'[f].typeIdx = 1
          /\ (Ran(f) /\ last'.ev = "bboxPublish" /\ last'.f = f)
               => /\ procs[f].pc = "radius"
                  /\ procs[f].typeIdx = AtLeastOne(Len(Categories(procs[f])))
          /\ (PlainFetch(f) /\ procs[f].tpage[1] = 1 /\ BboxResolveWith(f, 1, NotFull))
               => /\ f \in DOMAIN procs'
                  /\ procs'[f].pc = "radius"
          /\ (PlainFetch(f) /\ procs[f].page = 1 /\ RadiusResolveWith(f, NotFull))
               => last'.ev = "bboxPublish" /\ last'.f = f]_vars

\* A fetch for two categories over the two segments of the wide viewport has
\* published.
C28_Witness ==
  /\ last.ev = "bboxPublish"
  /\ last.req = Some(Req(Null, Null, {"water_quality", "wave_height"}, Some(View3)))

\* The answers of the long listing whose page is not full or is the last.
LastPages(page) == {res \in PageAnswers(page) : ~res.more}

\* The registry calls a bbox task may still make: a running task its pages up
\* to the cap, a task not yet started all of them, a finished task none.
TaskCallsLeft(p, i) ==
  IF i \in p.running THEN BBOX_MAX_PAGES - p.tpage[i] + 1
  ELSE IF i > p.index THEN BBOX_MAX_PAGES
  ELSE 0
RECURSIVE TasksCallsLeft(_, _)
TasksCallsLeft(p, n) == IF n = 0 THEN 0 ELSE TaskCallsLeft(p, n) + TasksCallsLeft(p, n - 1)

\* The place of a location strategy in the chain, counted from its end.
TiersLeft(tier) ==
  CASE tier = "bbox" -> 6
    [] tier = "r8" -> 5
    [] tier = "r25" -> 4
    [] tier = "r80" -> 3
    [] tier = "unfiltered" -> 2
    [] tier = "box05" -> 1
    [] OTHER -> 0

\* A bound on the registry calls fetch p may still make, its pending ones
\* included.
CallsLeft(p) ==
  LET passes == AtLeastOne(Len(Categories(p)))
  IN IF p.mode = "loc"
     THEN (TiersLeft(p.pc) * Len(p.types) + (Len(p.types) - p.typeIdx)) * RADIUS_MAX_PAGES
          + (RADIUS_MAX_PAGES - p.page + 1)
     ELSE IF p.pc = "bbox"
     THEN TasksCallsLeft(p, Len(p.tpage)) + passes * RADIUS_MAX_PAGES + 1
     ELSE (passes - p.typeIdx) * RADIUS_MAX_PAGES + (RADIUS_MAX_PAGES - p.page + 1)

\* C29: a bbox task asks for the pages 1, 2, ... of its query one by one and
\* returns after the first page that is not full or is the registry's last,
\* and it asks for no page beyond BBOX_MAX_PAGES (10); a radius pass and a
\* location strategy ask for no page beyond RADIUS_MAX_PAGES (5) per category;
\* and every answer or failure of a registry call takes at least one from the
\* number of calls the fetch may still make, which is never negative: the
\* fetch ends after finitely many answers and failures.
C29_PageCapsAndTermination ==
  /\ [](\A f \in DOMAIN procs :
          LET p == procs[f]
          IN /\ p.pc = "bbox" => \A i \in 1..Len(p.tpage) : p.tpage[i] \in 1..BBOX_MAX_PAGES
             /\ p.pc # "bbox" => /\ p.page \in 1..RADIUS_MAX_PAGES
                                 /\ p.typeIdx \in 1..Len(p.types)
             /\ CallsLeft(p) >= 1)
  /\ [][\A f \in DOMAIN procs :
          /\ (f \in DOMAIN procs' /\ procs[f].pc = "bbox" /\ procs'[f].pc = "bbox")
               => \A i \in 1..Len(procs[f].tpage) :
                    /\ procs'[f].tpage[i] \in {procs[f].tpage[i], procs[f].tpage[i] + 1}
                    /\ BboxResolveIn(f, i, [n \in PageNumbers |-> LastPages(n)]) => i \notin procs'[f].running
          /\ (Ran(f) /\ f \in DOMAIN procs')
               => CallsLeft(procs'[f]) < CallsLeft(procs[f])]_vars

\* A bbox task has stopped at page 10 of a listing of 11 pages, and the radius
\* pass of the same fetch has reached its page 5.
C29_Witness ==
  \E f \in DOMAIN procs :
    /\ procs[f].pc = "radius"
    /\ procs[f].tpage = <<BBOX_MAX_PAGES>>
    /\ procs[f].page = RADIUS_MAX_PAGES

\* The hundredth of a degree that a coordinate in 1/200 degree rounds to
\* (halves up), and the rounded signature of the normalized bounds.
Hundredth(x) == CHOOSE h \in ((x \div 2) - 1)..((x \div 2) + 1) : x \in {2 * h - 1, 2 * h}
Signature(b) ==
  LET norm == normalizeBoundsFine(b)
  IN <<Hundredth(norm.west), Hundredth(norm.south), Hundredth(norm.east), Hundredth(norm.north)>>
\* The map has reported a viewport in this step; a timer has fired in this step.
ViewportEvent == deb'.events = deb.events + 1
Commits == deb'.events = deb.events /\ deb'.timers # deb.timers
\* The committed signature is that of the viewport reported last.
CommittedIsReported ==
  deb.bounds # Null /\ deb.debouncedBoundsKey = Some(Signature(deb.bounds[1]))

\* C30: at most one debounce timer is pending; a viewport event cancels the
\* timer pending when it arrives; an event whose rounded signature equals the
\* committed one starts no timer and leaves the committed signature (on
\* which the fetch effect depends) as it is; a timer that fires commits the
\* signature of the latest event; and after any event, unless another event
\* follows, the committed signature eventually is that of its viewport.
C30_DebounceCommitsLastViewport ==
  /\ [](Cardinality(deb.timers) <= 1)
  /\ [][/\ ViewportEvent
             => /\ deb.timers \cap deb'.timers = {}
                /\ deb'.debouncedBoundsKey = deb.debouncedBoundsKey
                /\ deb.debouncedBoundsKey = Some(Signature(deb'.bounds[1]))
                     => deb'.timers = {}
        /\ Commits
             => /\ deb'.timers = {}
                /\ deb'.debouncedBoundsKey = Some(Signature(deb.bounds[1]))
                /\ \A t \in deb.timers : t.id = deb.events]_vars
  /\ \A n \in 1..MaxViewportEvents :
       (deb.events = n)
         ~> (deb.events > n \/ CommittedIsReported)

\* The committed viewport is the first one, and the viewport reported last
\* is the one 0.005 degree off it: its event started no timer.
C30_Witness ==
  /\ deb.events >= 2
  /\ deb.timers = {}
  /\ deb.bounds # deb.debouncedBounds
  /\ CommittedIsReported
  /\ deb.bounds[1].west = -24521


\* ------------------------------------------- properties of the skipped request
\* The fetch effect has run in viewport mode and the containment check has
\* ended it.
Skipped == (\E r \in Requests : RequestViewport(r)) /\ last'.ev = "skip"

\* C31: a viewport request skipped by the containment check starts no fetch
\* (no registry call), leaves both caches as they are whether or not its key
\* is stored, does not increment the fetch epoch, leaves the published list,
\* the revealed count, both error flags, the last-fetched expanded bounds and
\* the last types key unchanged, and sets loading to false.
C31_SkipOnlyClearsLoading ==
  [][Skipped =>
       /\ DOMAIN procs' = DOMAIN procs
       /\ \A f \in DOMAIN procs : procs'[f] = [procs[f] EXCEPT !.cancelled = TRUE]
       /\ UNCHANGED <<bboxCacheRef, locationCacheFallbackRef, fetchIdRef,
                      allSensors, progressiveVisibleCount, pub, sensorsError, radiusError,
                      lastFetchedBboxRef, lastSelectedTypesKeyRef>>
       /\ loadingSensors' = FALSE]_vars

\* A request has been skipped whose key is stored in the cache, while the
\* list on screen is not the stored one.
C31_Witness ==
  /\ last.ev = "skip"
  /\ cur[1].vp # Null
  /\ MapHas(bboxCacheRef, ViewportCacheKey(cur[1])[1])
  /\ MapGet(bboxCacheRef, ViewportCacheKey(cur[1])[1]) # Some(allSensors)
  /\ ~loadingSensors


\* ------------------------------------------ properties of runWithConcurrency
\* What task i returns when its calls succeed: its pages up to the last one.
RECURSIVE PagesFrom(_, _)
PagesFrom(i, n) ==
  IF TaskAnswer(i, n).more /\ n < BBOX_MAX_PAGES
  THEN TaskAnswer(i, n).sensors \o PagesFrom(i, n + 1)
  ELSE TaskAnswer(i, n).sensors
ExpectedChunk(i) == PagesFrom(i, 1)

\* The pages of task i before page n.
RECURSIVE PagesBefore(_, _)
PagesBefore(i, n) ==
  IF n <= 1 THEN << >> ELSE PagesBefore(i, n - 1) \o TaskAnswer(i, n - 1).sensors

\* The chunks of tasks 1..n one after the other.
RECURSIVE ChunksUpTo(_)
ChunksUpTo(n) == IF n = 0 THEN << >> ELSE ChunksUpTo(n - 1) \o ExpectedChunk(n)

\* The records of a list whose id no earlier record of the list has.
FirstOccurrences(list) ==
  SelectSeq([j \in 1..Len(list) |-> [rec0 |-> list[j], first |-> \A k \in 1..(j - 1) : list[k].id # list[j].id]],
            LAMBDA e : e.first)

\* C32: when no task fails, runWithConcurrency starts every task exactly
\* once (a step starts the tasks the shared index passes, and the pool ends
\* with the index at the task count), results[i] holds what task i has
\* received, and the list merged when the pool ends is the first occurrence
\* of each id in the chunks taken in task order, whatever the order in which
\* the registry calls resolved.
C32_ResultsInTaskOrder ==
  /\ [](\A f \in DOMAIN procs :
          (procs[f].pc = "bbox" /\ ~procs[f].cancelled) =>
            \A i \in 1..TaskCount(procs[f]) :
              procs[f].results[i] =
                IF i \in procs[f].running THEN PagesBefore(i, procs[f].tpage[i])
                ELSE IF i <= procs[f].index THEN ExpectedChunk(i)
                ELSE << >>)
  /\ [][\A f \in DOMAIN procs \cap DOMAIN procs' :
          procs[f].pc = "bbox" =>
            /\ procs'[f].running \ procs[f].running = (procs[f].index + 1)..procs'[f].index
            /\ procs'[f].pc = "radius" =>
                 /\ procs[f].index = TaskCount(procs[f])
                 /\ [j \in 1..Len(procs'[f].acc) |-> [rec0 |-> procs'[f].acc[j], first |-> TRUE]]
                      = FirstOccurrences(ChunksUpTo(TaskCount(procs[f])))]_vars

\* In a fetch of six tasks that has not been superseded, the last task has
\* returned its chunk while the first task is still waiting for its first
\* page.
C32_Witness ==
  \E f \in DOMAIN procs :
    /\ procs[f].pc = "bbox"
    /\ ~Stale(procs[f])
    /\ TaskCount(procs[f]) = 6
    /\ 6 \notin procs[f].running
    /\ procs[f].results[6] = <<SensorB, SensorA, SensorC>>
    /\ 1 \in procs[f].running
    /\ procs[f].tpage[1] = 1


\* ------------------------------------------------ properties of the lifecycle
\* Nothing is loading, and in location mode the data is marked ready.
Idle ==
  /\ ~loadingSensors
  /\ (cur # Null /\ cur[1].loc # Null) => locationDataReady

\* C33: if the effect has run and stops re-running (viewport, filter and
\* location stop changing) and the registry calls in flight keep being settled, then from
\* some moment on loading is false for ever and, in location mode, the
\* location-ready flag is true.
C33_ReturnsToIdle == ((<>(cur # Null)) /\ <>[][~SomeRequest]_vars) => <>[]Idle

\* A location fetch started while a viewport fetch was in flight has ended
\* after the superseded fetch did, and the screen is idle.
C33_Witness ==
  /\ cur # Null
  /\ cur[1].loc # Null
  /\ fetchIdRef = 2
  /\ procs = << >>
  /\ last.ev \in {"locPublish", "locThrow"}
  /\ last.f = 2
  /\ Idle


\* ------------------------------------------------- properties of the reveal
RevealedCount == reveal.progressiveVisibleCount
ListLength == Len(ToShow(reveal))
Remaining == ListLength - RevealedCount

Displayed == displaySensors(ToShow(reveal), RevealedCount)

Occurrences(list, s) == Cardinality({k \in 1..Len(list) : list[k] = s})

\* C36: sortSensorsByCenter returns a permutation of its input in which
\* every record with both coordinates precedes every record lacking one and
\* the records with coordinates are in non-decreasing squared distance from
\* the center, and it leaves the input array as it was.
C36_SortedPermutationInputKept ==
  (libCall # Null /\ libCall[1].fn = "sortSensorsByCenter" /\ libCall[1].result # Null) =>
    LET input == libCall[1].given
        out == libCall[1].result[1]
        center == libCall[1].center
    IN /\ Len(out) = Len(input)
       /\ \A s \in SortRecords : Occurrences(out, s) = Occurrences(input, s)
       /\ \A i, j \in 1..Len(out) :
            (HasCoords(out[i]) /\ ~HasCoords(out[j])) => i < j
       /\ \A i, j \in 1..Len(out) :
            (i < j /\ HasCoords(out[i]) /\ HasCoords(out[j])) =>
              distSq(2 * out[i].latitude[1], 2 * out[i].longitude[1], center.lat2, center.lon2)
                <= distSq(2 * out[j].latitude[1], 2 * out[j].longitude[1],
                          center.lat2, center.lon2)
       /\ libCall[1].sensors = input

\* The function has returned for an input of four records that was not in
\* order: a record without a coordinate first, and a farther record before a
\* nearer one.
C36_Witness ==
  /\ libCall # Null
  /\ libCall[1].fn = "sortSensorsByCenter"
  /\ libCall[1].result # Null
  /\ Len(libCall[1].given) = MaxSortLen
  /\ ~HasCoords(libCall[1].given[1])
  /\ libCall[1].given[2].id = "f"
  /\ libCall[1].given[3].id = "c"
  /\ libCall[1].result[1] # libCall[1].given


\* ------------------------------------------- properties of the getSensors query
\* URLSearchParams.has and .get
ParamsHas(params, name) == \E k \in 1..Len(params) : params[k].name = name
ParamsGet(params, name) == (CHOOSE e \in {params[k] : k \in 1..Len(params)} : e.name = name).value

BboxNames == {"min_lat", "min_lon", "max_lat", "max_lon"}
CenterNames == {"lat", "lon", "radius_km"}

\* r brought into [0, 1000]
InRange(r) == IF r < 0 THEN 0 ELSE IF r > 1000 THEN 1000 ELSE r

\* C37: when the four bbox values are supplied, getSensors sends them and
\* sends no lat, lon or radius_km, whatever center and radius are supplied;
\* otherwise, when lat and lon are supplied, it sends them, with the radius
\* brought into [0, 1000] when a radius is supplied and without radius_km
\* when none is.
C37_BboxBeforeCenterRadiusClamped ==
  (libCall # Null /\ libCall[1].fn = "getSensors" /\ libCall[1].result # Null) =>
    LET o == libCall[1].given
        q == libCall[1].result[1]
        allBbox == \A name \in BboxNames : o[name] # Null
    IN /\ allBbox =>
            /\ \A name \in BboxNames :
                 ParamsHas(q, name) /\ ParamsGet(q, name) = String(o[name][1])
            /\ \A name \in CenterNames : ~ParamsHas(q, name)
       /\ (~allBbox /\ o.lat # Null /\ o.lon # Null) =>
            /\ ParamsHas(q, "lat") /\ ParamsGet(q, "lat") = String(o.lat[1])
            /\ ParamsHas(q, "lon") /\ ParamsGet(q, "lon") = String(o.lon[1])
            /\ ParamsHas(q, "radius_km") <=> o.radius_km # Null
            /\ o.radius_km # Null =>
                 ParamsGet(q, "radius_km") = String(InRange(o.radius_km[1]))

\* A request has been sent for options with the four bbox values, a center
\* and a radius above the range.
C37_Witness ==
  /\ libCall # Null
  /\ libCall[1].fn = "getSensors"
  /\ libCall[1].result # Null
  /\ \A name \in BboxNames : libCall[1].given[name] # Null
  /\ libCall[1].given.lat = Some(0)
  /\ libCall[1].given.lon # Null
  /\ libCall[1].given.radius_km = Some(1001)


\* ------------------------------------------ properties of the readings proxy
\* The registry has reported that the sensor of the request has no latest
\* reading: a 404, or an OK answer whose body is null.
RegistryReportedNotFound(id) ==
  /\ libCall # Null
  /\ libCall[1].fn = "GET"
  /\ libCall[1].given.id = id
  /\ libCall[1].given.apiKey
  /\ libCall[1].given.upstream.kind = "answer"
  /\ \/ libCall[1].given.upstream.status = 404
     \/ Ok(libCall[1].given.upstream.status) /\ libCall[1].given.upstream.body = "null"

\* C38: in the browser a sensor id enters the negative cache only in a step
\* of getLatestReading whose request the registry answered with not-found;
\* a timeout or a transport failure of the lookup never adds the id.
C38_OnlyNotFoundEntersNegativeCache ==
  [][\A id \in FewIds :
       (id \notin client.noReadingCache /\ id \in client'.noReadingCache)
         => RegistryReportedNotFound(id)]_vars


\* --------------------------------------- properties of buildAssistantReply
SomeLookupFailed ==
  ReplyCall /\ \E i \in DOMAIN libCall[1].races : libCall[1].races[i].lookup = "rejected"
ReplyProduced ==
  ReplyCall /\ libCall[1].result # Null /\ libCall[1].result[1].kind # "throws"
SomeLookupUnanswered ==
  ReplyCall /\ \E i \in DOMAIN libCall[1].races : libCall[1].races[i].lookup = "pending"

\* C39: each reading lookup of buildAssistantReply is raced against a timer
\* that resolves to null: unless some lookup fails, a reply is eventually
\* produced, whether or not the registry ever answers; and as long as no
\* lookup has failed the call does not throw.
C39_ReplyDespiteSilentRegistry ==
  /\ <>(SomeLookupFailed \/ ReplyProduced)
  /\ [](ReplyCall /\ libCall[1].result = Some([kind |-> "throws"]) => SomeLookupFailed)

\* A reply about three queried sensors has been produced while one lookup is
\* still unanswered and none has failed; one sensor answered with a reading.
C39_Witness ==
  /\ ReplyProduced
  /\ libCall[1].result[1] = [kind |-> "reply", queried |-> 3, respondedWithData |-> 1]
  /\ SomeLookupUnanswered
  /\ ~SomeLookupFailed

====
